---- MODULE Spec2Model ----
(***************************************************************************)
(* A model of the RN2903 serial wrapper (class rn2903 of rn2903.py): the   *)
(* command grammar with its validator, the write/read protocol of          *)
(* send_command, and the configuration pull/push built on it.              *)
(*                                                                         *)
(* Python strings are TLA+ strings, taken apart with Head, Tail, SubSeq    *)
(* and Len.  A Python value that may be either False or a string (the      *)
(* result of validate_command or read_response, the members of the tuple   *)
(* send_command returns) is PyFalse or PyStr(s).                           *)
(***************************************************************************)
EXTENDS Integers, Sequences, FiniteSets, TLC

(***************************************************************************)
(* Python values and string methods                                        *)
(***************************************************************************)

PyFalse == [bool |-> FALSE]

PyStr(s) == [str |-> s]

IsStr(v) == DOMAIN v = {"str"}

\* Python truthiness of a False-or-string value: False and '' are falsy.
truthy(v) == IsStr(v) /\ v.str # ""

Char(s, i) == SubSeq(s, i, i)

\* The characters str.split() with no argument separates on.
whitespace == {" ", "\t", "\n", "\r", "\f"}

decimal_digits == "0123456789"

hex_digits == "0123456789abcdef"

ascii_uppercase == "ABCDEFGHIJKLMNOPQRSTUVWXYZ"

ascii_lowercase == "abcdefghijklmnopqrstuvwxyz"

\* c in s, for a one-character c.
contains(s, c) == \E i \in 1..Len(s) : Char(s, i) = c

\* The 1-based position of the first c in s (c occurs in s).
index(s, c) ==
  CHOOSE i \in 1..Len(s) :
    Char(s, i) = c /\ \A j \in 1..(i - 1) : Char(s, j) # c

\* s.startswith(p)
startswith(s, p) == Len(s) >= Len(p) /\ SubSeq(s, 1, Len(p)) = p

\* The positions of s at which a token of s.split() starts: a character that
\* is not whitespace, at the start of s or after whitespace.
token_starts(s) ==
  {i \in 1..Len(s) :
     Char(s, i) \notin whitespace /\ (i = 1 \/ Char(s, i - 1) \in whitespace)}

\* The token of s that starts at position i: up to the next whitespace.
token_at(s, i) ==
  LET stops == {j \in i..Len(s) : j = Len(s) \/ Char(s, j + 1) \in whitespace}
      last == CHOOSE j \in stops : \A k \in stops : j <= k
  IN  SubSeq(s, i, last)

\* s.split(): the maximal runs of non-whitespace characters, in order.
split(s) ==
  LET starts == token_starts(s)
      nth(k) == CHOOSE i \in starts : Cardinality({j \in starts : j < i}) = k - 1
  IN  [k \in 1..Cardinality(starts) |-> token_at(s, nth(k))]

\* s.split(' '): every single space separates, empty fields are kept.
split_space(s) ==
  LET spaces == {i \in 1..Len(s) : Char(s, i) = " "}
      cuts == spaces \cup {0, Len(s) + 1}
      nth(k) == CHOOSE i \in cuts : Cardinality({j \in cuts : j < i}) = k - 1
  IN  [k \in 1..(Cardinality(spaces) + 1) |->
         SubSeq(s, nth(k) + 1, nth(k + 1) - 1)]

\* The lower-case letter of every upper-case ASCII letter.
lower_table ==
  [c \in {Char(ascii_uppercase, i) : i \in 1..Len(ascii_uppercase)} |->
     Char(ascii_lowercase, index(ascii_uppercase, c))]

\* c.lower() for one ASCII character.
lower_char(c) == IF c \in DOMAIN lower_table THEN lower_table[c] ELSE c

\* s.lower() on ASCII, half by half.
RECURSIVE lower(_)
lower(s) ==
  IF Len(s) = 0 THEN ""
  ELSE IF Len(s) = 1 THEN lower_char(s)
  ELSE lower(SubSeq(s, 1, Len(s) \div 2))
         \o lower(SubSeq(s, Len(s) \div 2 + 1, Len(s)))

\* Every character of s is one of chars (s may be empty).
all_in(s, chars) == \A i \in 1..Len(s) : contains(chars, Char(s, i))

\* s.isdigit() on ASCII: non-empty and all decimal digits.
isdigit(s) == s # "" /\ all_in(s, decimal_digits)

\* s.replace(old, ''), for an old no two occurrences of which overlap (the
\* terminator "\r\n"): s is cut at an occurrence across its middle when
\* there is one, in the middle otherwise, and both parts are treated alike.
RECURSIVE remove_all(_, _)
remove_all(s, old) ==
  LET n == Len(s)
      m == n \div 2
      l == Len(old)
      across == {i \in 1..n : i <= m + 1 /\ i + l - 1 >= m /\ i + l - 1 <= n
                              /\ SubSeq(s, i, i + l - 1) = old}
  IN  IF n < l THEN s
      ELSE IF across # {}
           THEN LET i == CHOOSE j \in across : \A k \in across : j <= k
                IN  remove_all(SubSeq(s, 1, i - 1), old)
                      \o remove_all(SubSeq(s, i + l, n), old)
      ELSE IF n = 1 THEN s
      ELSE remove_all(SubSeq(s, 1, m), old) \o remove_all(SubSeq(s, m + 1, n), old)

\* n copies of s.
RECURSIVE repeat(_, _)
repeat(s, n) ==
  IF n = 0 THEN ""
  ELSE IF n = 1 THEN s
  ELSE repeat(s, n \div 2) \o repeat(s, n - n \div 2)

(***************************************************************************)
(* Python's int(s) and int(s, 16) are unbounded; the ranges of the command *)
(* tree reach 4294967296 and 16^240 - 1.  A number is kept as its digit    *)
(* string without leading zeros, and compared by length and then digit by  *)
(* digit, which is the order of the integers.                              *)
(***************************************************************************)

strip_zeros(s) ==
  LET kept == {i \in 1..Len(s) : i = Len(s) \/ Char(s, i) # "0"}
      first == CHOOSE i \in kept : \A j \in kept : i <= j
  IN  IF s = "" THEN s ELSE SubSeq(s, first, Len(s))

\* a < b for digit strings of the same length, over the digit order of
\* digits: decided at the first position where they differ.
digits_less(a, b, digits) ==
  LET differ == {i \in 1..Len(a) : Char(a, i) # Char(b, i)}
      first == CHOOSE i \in differ : \A j \in differ : i <= j
  IN  IF differ = {} THEN FALSE
      ELSE index(digits, Char(a, first)) < index(digits, Char(b, first))

\* x < y for digit strings without leading zeros: the shorter is the
\* smaller.
stripped_less(x, y, digits) ==
  IF Len(x) # Len(y) THEN Len(x) < Len(y) ELSE digits_less(x, y, digits)

number_less(a, b, digits) == stripped_less(strip_zeros(a), strip_zeros(b), digits)

\* int(a) < int(b), for a and b strings of decimal digits.
int_less(a, b) == number_less(a, b, decimal_digits)

\* int(a, 16) < int(b, 16), for a and b strings of hex digits of either case.
hex_less(a, b) == number_less(lower(a), lower(b), hex_digits)

(***************************************************************************)
(* Device constants                                                        *)
(***************************************************************************)

firmware_name == "RN2903"

target_version == "1.0.5"

data_termintaor == "\r\n"

response_codes ==
  <<"ok", "busy", "fram_counter_err_rejoin_needed", "invalid_class",
    "invalid_data_len", "invalid_param", "keys_not_init", "mac_paused",
    "multicast_keys_not_set", "no_free_ch", "not_joined", "silent", "err">>

nvm_adr_range == <<"300", "3FF">>

dpin_names ==
  <<"GPIO0", "GPIO1", "GPIO2", "GPIO3", "GPIO4", "GPIO5", "GPIO6", "GPIO7",
    "GPIO8", "GPIO9", "GPIO10", "GPIO11", "GPIO12", "GPIO13", "UART_CTS",
    "UART_RTS", "TEST0", "TEST1">>

apin_names ==
  <<"GPIO0", "GPIO1", "GPIO2", "GPIO3", "GPIO5", "GPIO6", "GPIO7", "GPIO8",
    "GPIO9", "GPIO10", "GPIO11", "GPIO12", "GPIO13">>

pin_modes == <<"digout", "digin", "ana">>

max_tx_msg == repeat("F", 240)

auto_freq_band ==
  <<"250", "125", "62.5", "31.3", "15.6", "7.8", "3.9", "200", "100", "50",
    "25", "12.5", "6.3", "3.1", "166.7", "83.3", "41.7", "20.8", "10.4",
    "5.2", "2.6">>

gfsk_modulation_bt == <<"none", "1.0", "0.5", "0.3">>

rx_bandwidth ==
  <<"250", "125", "62.5", "31.3", "15.6", "7.8", "3.9", "200", "100", "50",
    "25", "12.5", "6.3", "3.1", "166.7", "83.3", "41.7", "20.8", "10.4",
    "5.2", "2.6">>

spread_factors == <<"sf7", "sf8", "sf9", "sf10", "sf11", "sf12">>

(***************************************************************************)
(* The command tree.  A dict is a function on its keys, the empty dict {}  *)
(* the function <<>>; the value of 'user_input' is the list of parameter   *)
(* specifications.  An 'int' range is written in the source with Python    *)
(* ints; here its two ends are their decimal strings.                      *)
(***************************************************************************)

\* {'type':'int','range':[lo,hi]}
int_input(lo, hi) == [type |-> "int", range |-> <<lo, hi>>]

\* {'type':'hex','range':r}
hex_input(r) == [type |-> "hex", range |-> r]

\* {'type':'set','range':r}
set_input(r) == [type |-> "set", range |-> r]

channel_input == [user_input |-> <<int_input("0", "71")>>]

sys_commands ==
  [sleep |-> [user_input |-> <<int_input("100", "4294967296")>>],
   reset |-> <<>>,
   eraseFW |-> <<>>,
   factoryRESET |-> <<>>,
   set |-> [nvm |-> [user_input |-> <<hex_input(nvm_adr_range),
                                      hex_input(<<"00", "FF">>)>>],
            pindig |-> [user_input |-> <<set_input(dpin_names),
                                         int_input("0", "1")>>],
            pinmode |-> [user_input |-> <<set_input(dpin_names),
                                          set_input(pin_modes)>>]],
   get |-> [ver |-> <<>>,
            nvm |-> [user_input |-> <<hex_input(nvm_adr_range)>>],
            vdd |-> <<>>,
            hweui |-> <<>>,
            pindig |-> [user_input |-> <<set_input(dpin_names)>>],
            pinana |-> [user_input |-> <<set_input(apin_names)>>]]]

mac_commands ==
  [reset |-> <<>>,
   pause |-> <<>>,
   resume |-> <<>>,
   save |-> <<>>,
   get |-> [adr |-> <<>>, appeui |-> <<>>, ar |-> <<>>,
            ch |-> [freq |-> channel_input,
                    drrange |-> channel_input,
                    status |-> channel_input],
            class |-> <<>>, dcycleps |-> <<>>, devaddr |-> <<>>,
            deveui |-> <<>>, dnctr |-> <<>>, dr |-> <<>>, gwnb |-> <<>>,
            mcast |-> <<>>, mcastdevaddr |-> <<>>, mcastdnctr |-> <<>>,
            mrgn |-> <<>>, pwridx |-> <<>>, retx |-> <<>>, rx2 |-> <<>>,
            rxdelay1 |-> <<>>, rxdelay2 |-> <<>>, status |-> <<>>,
            sync |-> <<>>, upctr |-> <<>>]]

radio_commands ==
  [rx |-> [user_input |-> <<int_input("0", "65535")>>],
   tx |-> [user_input |-> <<hex_input(<<"0", max_tx_msg>>)>>],
   cw |-> <<>>,
   rxstop |-> <<>>,
   set |-> [afcbw |-> [user_input |-> <<set_input(auto_freq_band)>>],
            bitrate |-> [user_input |-> <<int_input("1", "300000")>>],
            bt |-> [user_input |-> <<set_input(gfsk_modulation_bt)>>],
            bw |-> [user_input |-> <<set_input(<<"125", "250", "500">>)>>],
            cr |-> [user_input |-> <<set_input(<<"4/5", "4/6", "4/7", "4/8">>)>>],
            crc |-> [user_input |-> <<set_input(<<"on", "off">>)>>],
            fdev |-> [user_input |-> <<int_input("0", "200000")>>],
            freq |-> [user_input |-> <<int_input("902000000", "928000000")>>],
            iqi |-> [user_input |-> <<set_input(<<"on", "off">>)>>],
            mod |-> [user_input |-> <<set_input(<<"lora", "fsk">>)>>],
            prlen |-> [user_input |-> <<int_input("0", "65535")>>],
            pwr |-> [user_input |-> <<int_input("2", "20")>>],
            rxbw |-> [user_input |-> <<set_input(rx_bandwidth)>>],
            sf |-> [user_input |-> <<set_input(spread_factors)>>],
            sync |-> [user_input |-> <<hex_input(<<"0", "FFFFFFFFFFFFFFFF">>)>>],
            wdt |-> [user_input |-> <<int_input("0", "4294967295")>>]],
   get |-> [afcbw |-> <<>>, bitrate |-> <<>>, bt |-> <<>>, bw |-> <<>>,
            cr |-> <<>>, crc |-> <<>>, fdev |-> <<>>, freq |-> <<>>,
            iqi |-> <<>>, mod |-> <<>>, prlen |-> <<>>, pwr |-> <<>>,
            rssi |-> <<>>, rxbw |-> <<>>, sf |-> <<>>, snr |-> <<>>,
            sync |-> <<>>, wdt |-> <<>>]]

commands == [sys |-> sys_commands, mac |-> mac_commands, radio |-> radio_commands]

\* key in d, for a dict d.
has_key(d, key) == key \in DOMAIN d

\* The members of a list.
members(list) == {list[i] : i \in DOMAIN list}

(***************************************************************************)
(* check_param: one token against one parameter specification.             *)
(***************************************************************************)

\* The 'int' branch.
check_int(param, range) ==
  IF ~isdigit(param) THEN FALSE
  ELSE IF int_less(param, range[1]) THEN FALSE
  ELSE IF int_less(range[2], param) THEN FALSE
  ELSE TRUE

\* The 'hex' branch: the token is lower-cased in a local, searched for a
\* character outside [0-9a-f], and compared as a base-16 number.
\* check_lowered as it would be were the result of the character test
\* returned the wrong way round.
check_lowered_lenient(p, range) ==
  IF ~all_in(p, hex_digits) THEN TRUE
  ELSE IF hex_less(p, range[1]) THEN FALSE
  ELSE IF hex_less(range[2], p) THEN FALSE
  ELSE TRUE

check_lowered(p, range) ==
  IF ~all_in(p, hex_digits) THEN FALSE
  ELSE IF hex_less(p, range[1]) THEN FALSE
  ELSE IF hex_less(range[2], p) THEN FALSE
  ELSE TRUE

check_hex(param, range) == check_lowered(lower(param), range)

\* check_set as it would be were the comparison made without regard to case.
check_set_nocase(param, range) ==
  lower(param) \in {lower(range[i]) : i \in DOMAIN range}

\* The 'set' branch: membership in the list, by string equality.
check_set(param, range) == param \in members(range)

check_param(ps_param, ps_param_def) ==
  IF ps_param = "" THEN FALSE
  ELSE IF ~({"type", "range"} \subseteq DOMAIN ps_param_def) THEN FALSE
  ELSE IF ~(Len(ps_param_def.range) > 0) THEN FALSE
  ELSE IF ps_param_def.type = "int" THEN check_int(ps_param, ps_param_def.range)
  ELSE IF ps_param_def.type = "hex" THEN check_hex(ps_param, ps_param_def.range)
  ELSE IF ps_param_def.type = "set" THEN check_set(ps_param, ps_param_def.range)
  ELSE FALSE

(***************************************************************************)
(* validate_command: False, the string to send, or an IndexError raised by *)
(* cmd_set[0] or cmd_set[1] when the string holds a space and fewer than   *)
(* two tokens.                                                             *)
(***************************************************************************)

IndexError == [raise |-> "IndexError"]

\* The tokens of a command after the second, '' when absent.
token(cmd_set, i) == IF Len(cmd_set) >= i THEN cmd_set[i] ELSE ""

\* The node of a command declares user input: one or two parameters, each
\* checked, each appended to send_str; a failed check returns False.
user_input_command(send_str, user_input, cmd_par1, cmd_par2) ==
  IF ~check_param(cmd_par1, user_input[1]) THEN PyFalse
  ELSE IF Len(user_input) = 2
       THEN IF check_param(cmd_par2, user_input[2])
            THEN PyStr(send_str \o " " \o cmd_par1 \o " " \o cmd_par2)
            ELSE PyFalse
       ELSE PyStr(send_str \o " " \o cmd_par1)

\* The same one level down: send_str already ends in the subcommand.
user_input_subcommand(send_str, user_input, cmd_par2, cmd_par3) ==
  IF ~check_param(cmd_par2, user_input[1]) THEN PyFalse
  ELSE IF Len(user_input) = 2
       THEN IF check_param(cmd_par3, user_input[2])
            THEN PyStr(send_str \o " " \o cmd_par2 \o " " \o cmd_par3)
            ELSE PyFalse
       ELSE PyStr(send_str \o " " \o cmd_par2)

\* The fourth token names a subcommand of the third: the fifth is appended
\* when it passes the check; nothing else is appended and nothing returns
\* False.
fourth_subcommand(send_str, node, cmd_par2, cmd_par3) ==
  IF has_key(node, cmd_par2)
  THEN IF has_key(node[cmd_par2], "user_input")
       THEN IF check_param(cmd_par3, node[cmd_par2].user_input[1])
            THEN PyStr(send_str \o " " \o cmd_par3)
            ELSE PyStr(send_str)
       ELSE PyStr(send_str)
  ELSE PyStr(send_str)

\* The third token is a subcommand: it is appended, then its own node decides.
third_subcommand(send_str, node, cmd_par2, cmd_par3) ==
  IF DOMAIN node # {}
  THEN IF has_key(node, "user_input")
       THEN user_input_subcommand(send_str, node.user_input, cmd_par2, cmd_par3)
       ELSE fourth_subcommand(send_str, node, cmd_par2, cmd_par3)
  ELSE PyStr(send_str)

\* The parameters of a command whose node is not empty.
check_parameters(send_str, node, cmd_par1, cmd_par2, cmd_par3) ==
  IF has_key(node, "user_input")
  THEN user_input_command(send_str, node.user_input, cmd_par1, cmd_par2)
  ELSE IF has_key(node, cmd_par1)
       THEN third_subcommand(send_str \o " " \o cmd_par1, node[cmd_par1],
                             cmd_par2, cmd_par3)
       ELSE PyFalse

\* The walk of the tree, from the lower-cased type and the base command.
check_command(cmd_type, cmd_base, cmd_par1, cmd_par2, cmd_par3) ==
  IF ~has_key(commands, cmd_type) THEN PyFalse
  ELSE IF ~has_key(commands[cmd_type], cmd_base) THEN PyFalse
  ELSE IF DOMAIN commands[cmd_type][cmd_base] # {}
       THEN check_parameters(cmd_type \o " " \o cmd_base,
                             commands[cmd_type][cmd_base],
                             cmd_par1, cmd_par2, cmd_par3)
       ELSE PyStr(cmd_type \o " " \o cmd_base)

\* cmd_set = cmd.split(): cmd_set[0] and cmd_set[1] are read without a test
\* of the length.
check_tokens(cmd_set) ==
  IF Len(cmd_set) < 2 THEN IndexError
  ELSE check_command(lower(cmd_set[1]), cmd_set[2], token(cmd_set, 3),
                     token(cmd_set, 4), token(cmd_set, 5))

\* validate_command as it would be were the whole command lower-cased before
\* it is split.
validate_command_lowering(ps_cmd) ==
  IF ~contains(ps_cmd, " ") THEN PyFalse ELSE check_tokens(split(lower(ps_cmd)))

validate_command(ps_cmd) ==
  IF ~contains(ps_cmd, " ") THEN PyFalse ELSE check_tokens(split(ps_cmd))

(***************************************************************************)
(* The transport during one send_command.  The serial device is outside    *)
(* the program: what it does for one command is a record                   *)
(*   write: whether dev_object.write succeeds (TRUE) or raises (FALSE),    *)
(*   rx:    the bytes dev_object.read() hands over, one per call,          *)
(*   after: what read() does once rx is used up: it raises ("raise"), or   *)
(*          it times out and returns no byte ("timeout").                  *)
(***************************************************************************)

max_ch == 256

\* write_command: False without a write for an empty string; otherwise one
\* write of the string and the terminator, True unless the write raises.
\* write_command as it would be were the exception of write() swallowed and
\* True returned all the same.
write_command_unchecked(cmd_str, dev) ==
  IF cmd_str = ""
  THEN [ok |-> FALSE, writes |-> <<>>]
  ELSE [ok |-> TRUE, writes |-> <<cmd_str \o data_termintaor>>]

\* write_command as it would be were a write that raises made a second time.
write_command_retrying(cmd_str, dev) ==
  IF cmd_str = ""
  THEN [ok |-> FALSE, writes |-> <<>>]
  ELSE [ok |-> dev.write,
        writes |-> IF dev.write THEN <<cmd_str \o data_termintaor>>
                   ELSE <<cmd_str \o data_termintaor, cmd_str \o data_termintaor>>]

\* write_command: one write of cmd_str and the terminator.
write_command(cmd_str, dev) ==
  IF cmd_str = ""
  THEN [ok |-> FALSE, writes |-> <<>>]
  ELSE [ok |-> dev.write, writes |-> <<cmd_str \o data_termintaor>>]

\* read_response: single-byte reads until a line feed is read or max_ch
\* reads are done; False when a read raises; the terminator "\r\n" is then
\* replaced by ''.  value is what is returned, reads the number of read()
\* calls made.
\* read_response as it would be were the loop to end at a line feed only.
read_response_uncapped(dev) ==
  LET rx == dev.rx
      feeds == {i \in 1..Len(rx) : Char(rx, i) = "\n"}
      feed == CHOOSE i \in feeds : \A j \in feeds : i <= j
  IN  IF feeds # {}
      THEN [value |-> PyStr(remove_all(SubSeq(rx, 1, feed), data_termintaor)),
            reads |-> feed]
      ELSE IF dev.after = "raise"
      THEN [value |-> PyFalse, reads |-> Len(rx) + 1]
      ELSE [value |-> PyStr(remove_all(rx, data_termintaor)), reads |-> max_ch]

read_response(dev) ==
  LET rx == dev.rx
      feeds == {i \in 1..Len(rx) : i <= max_ch /\ Char(rx, i) = "\n"}
      feed == CHOOSE i \in feeds : \A j \in feeds : i <= j
  IN  IF feeds # {}
      THEN [value |-> PyStr(remove_all(SubSeq(rx, 1, feed), data_termintaor)),
            reads |-> feed]
      ELSE IF Len(rx) >= max_ch
      THEN [value |-> PyStr(remove_all(SubSeq(rx, 1, max_ch), data_termintaor)),
            reads |-> max_ch]
      ELSE IF dev.after = "raise"
      THEN [value |-> PyFalse, reads |-> Len(rx) + 1]
      ELSE [value |-> PyStr(remove_all(rx, data_termintaor)), reads |-> max_ch]

(***************************************************************************)
(* send_command.  The result is the tuple returned (status, response), or  *)
(* raised = TRUE when the call ends in an exception, with the strings      *)
(* written to the transport (writes), the number of read() calls (reads)   *)
(* and of read_response calls (lines), and dev_status as the call leaves   *)
(* it.                                                                     *)
(***************************************************************************)

err_status == <<"invalid_param", "busy", "radio_err">>

\* A return before any transport call.
returned(status, response, dev_status) ==
  [raised |-> FALSE, status |-> status, response |-> response,
   writes |-> <<>>, reads |-> 0, lines |-> 0, dev_status |-> dev_status]

\* A return after write_command alone (result w).
returned_written(status, response, w, dev_status) ==
  [raised |-> FALSE, status |-> status, response |-> response,
   writes |-> w.writes, reads |-> 0, lines |-> 0, dev_status |-> dev_status]

\* A return after write_command (result w) and read_response (result r).
returned_read(status, response, w, r, dev_status) ==
  [raised |-> FALSE, status |-> status, response |-> response,
   writes |-> w.writes, reads |-> r.reads, lines |-> 1, dev_status |-> dev_status]

\* validate_command raised: nothing is caught, the call ends with it.
raised_error(dev_status) ==
  [raised |-> TRUE, status |-> PyFalse, response |-> PyFalse,
   writes |-> <<>>, reads |-> 0, lines |-> 0, dev_status |-> dev_status]

\* (module,version,mm,dd,yy,tm) = status.split(' ') succeeds: status is a
\* string of exactly six fields.
six_fields(status) == IsStr(status) /\ Len(split_space(status.str)) = 6

\* 'sys sleep <ms>'
slept(mils, w, r, dev_status) ==
  IF w.ok
  THEN IF r.value = PyStr("ok")
       THEN returned_read(PyStr("ok"), PyStr(mils), w, r, dev_status)
       ELSE returned_read(PyFalse, PyFalse, w, r, dev_status)
  ELSE returned_written(PyStr(""), PyStr(""), w, dev_status)

sys_sleep(send_str, dev, dev_status) ==
  slept(split_space(send_str)[3], write_command(send_str, dev),
        read_response(dev), dev_status)

\* 'sys reset': the response is the version line.
\* After the write w of a reset and the read r of the version line.
\* restarted as it would be without the comparison of the module's name.
restarted_any_name(w, r, dev_status) ==
  IF w.ok
  THEN IF six_fields(r.value)
       THEN returned_read(PyStr("ok"), r.value, w, r, dev_status)
       ELSE returned_read(PyFalse, PyFalse, w, r, dev_status)
  ELSE returned_written(PyStr(""), PyStr(""), w, dev_status)

restarted(w, r, dev_status) ==
  IF w.ok
  THEN IF six_fields(r.value)
       THEN IF split_space(r.value.str)[1] = firmware_name
            THEN returned_read(PyStr("ok"), r.value, w, r, dev_status)
            ELSE returned_read(PyFalse, PyFalse, w, r, dev_status)
       ELSE returned_read(PyFalse, PyFalse, w, r, dev_status)
  ELSE returned_written(PyStr(""), PyStr(""), w, dev_status)

sys_reset(send_str, dev, dev_status) ==
  restarted(write_command(send_str, dev), read_response(dev), dev_status)

\* 'sys eraseFW': written only with safe_mode 'off', and never read.
\* erased as it would be were the result of write_command not looked at.
erased_blind(w, dev_status) ==
  returned_written(PyStr("ok"), PyStr("awaiting firmware"), w, dev_status)

erased(w, dev_status) ==
  IF w.ok
  THEN returned_written(PyStr("ok"), PyStr("awaiting firmware"), w, dev_status)
  ELSE returned_written(PyStr(""), PyStr(""), w, dev_status)

\* sys_eraseFW as it would be without the test of safe_mode.
sys_eraseFW_unsafe(send_str, dev, dev_status, safe_mode) ==
  erased(write_command(send_str, dev), dev_status)

sys_eraseFW(send_str, dev, dev_status, safe_mode) ==
  IF safe_mode = "off"
  THEN erased(write_command(send_str, dev), dev_status)
  ELSE returned(PyFalse, PyFalse, dev_status)

\* 'sys factoryRESET': as 'sys reset', with safe_mode 'off' only.
sys_factoryRESET(send_str, dev, dev_status, safe_mode) ==
  IF safe_mode = "off"
  THEN restarted(write_command(send_str, dev), read_response(dev), dev_status)
  ELSE returned(PyFalse, PyFalse, dev_status)

\* 'radio rx <n>' and 'radio tx <hex>': the branches only log; status and
\* response are returned as initialised, ''.
radio_rx(send_str, dev_status) == returned(PyStr(""), PyStr(""), dev_status)

radio_tx(send_str, dev_status) == returned(PyStr(""), PyStr(""), dev_status)

\* answered as it would be were the line 'ok' handed back as the response.
answered_raw(w, r, dev_status) ==
  IF w.ok
  THEN IF IsStr(r.value) /\ r.value.str \in members(err_status)
       THEN returned_read(PyFalse, r.value, w, r, dev_status)
       ELSE returned_read(PyStr("ok"), r.value, w, r, dev_status)
  ELSE returned_written(PyStr(""), PyStr(""), w, dev_status)

\* All other commands.
answered(w, r, dev_status) ==
  IF w.ok
  THEN IF IsStr(r.value) /\ r.value.str \in members(err_status)
       THEN returned_read(PyFalse, r.value, w, r, dev_status)
       ELSE IF r.value # PyStr("ok")
            THEN returned_read(PyStr("ok"), r.value, w, r, dev_status)
            ELSE returned_read(PyStr("ok"), PyStr(""), w, r, dev_status)
  ELSE returned_written(PyStr(""), PyStr(""), w, dev_status)

other_command(send_str, dev, dev_status) ==
  answered(write_command(send_str, dev), read_response(dev), dev_status)

\* The branch taken for a validated command.
dispatch(send_str, dev, dev_status, safe_mode) ==
  IF startswith(send_str, "sys sleep") THEN sys_sleep(send_str, dev, dev_status)
  ELSE IF startswith(send_str, "sys reset") THEN sys_reset(send_str, dev, dev_status)
  ELSE IF startswith(send_str, "sys eraseFW")
       THEN sys_eraseFW(send_str, dev, dev_status, safe_mode)
  ELSE IF startswith(send_str, "sys factoryRESET")
       THEN sys_factoryRESET(send_str, dev, dev_status, safe_mode)
  ELSE IF startswith(send_str, "radio rx ") THEN radio_rx(send_str, dev_status)
  ELSE IF startswith(send_str, "radio tx") THEN radio_tx(send_str, dev_status)
  ELSE other_command(send_str, dev, dev_status)

\* After send_str = self.validate_command(ps_cmd).
send_validated(send_str, dev, dev_status, safe_mode) ==
  IF send_str = IndexError THEN raised_error(dev_status)
  ELSE IF ~truthy(send_str) THEN returned(PyFalse, PyFalse, dev_status)
  ELSE dispatch(send_str.str, dev, dev_status, safe_mode)

\* send_command as it would be without the test of dev_status.
send_command_unguarded(ps_cmd, dev, dev_status, safe_mode) ==
  send_validated(validate_command(ps_cmd), dev, dev_status, safe_mode)

\* send_command as it would be were 'sys reset' let through in the 'error'
\* state to bring the session back to 'idle'.
send_command_recovering(ps_cmd, dev, dev_status, safe_mode) ==
  IF dev_status = "error" /\ ps_cmd # "sys reset"
  THEN returned(PyFalse, PyFalse, dev_status)
  ELSE send_validated(validate_command(ps_cmd), dev, "idle", safe_mode)

\* send_command as it would be were the string sent as given, without
\* validate_command.
send_command_unvalidated(ps_cmd, dev, dev_status, safe_mode) ==
  IF dev_status = "error" THEN returned(PyFalse, PyFalse, dev_status)
  ELSE dispatch(ps_cmd, dev, dev_status, safe_mode)

send_command(ps_cmd, dev, dev_status, safe_mode) ==
  IF dev_status = "error" THEN returned(PyFalse, PyFalse, dev_status)
  ELSE send_validated(validate_command(ps_cmd), dev, dev_status, safe_mode)

(***************************************************************************)
(* Dicts with string values (device_config and its groups) are lists of    *)
(* (key, value) pairs with distinct keys, in insertion order.              *)
(***************************************************************************)

keys(dict) == {dict[i][1] : i \in DOMAIN dict}

value_of(dict, key) == dict[CHOOSE i \in DOMAIN dict : dict[i][1] = key][2]

\* The default configuration set by __init__.
default_device_config ==
  [sys |-> <<<<"ver", PyStr("")>>, <<"nvm", PyStr("")>>, <<"hweui", PyStr("")>>>>,
   mac |-> <<<<"adr", PyStr("off")>>, <<"appeui", PyStr("0000000000000000")>>,
             <<"ar", PyStr("off")>>, <<"class", PyStr("A")>>,
             <<"dcycleps", PyStr("1")>>, <<"devaddr", PyStr("00000000")>>,
             <<"deveui", PyStr("0000000000000000")>>, <<"dnctr", PyStr("0")>>,
             <<"dr", PyStr("XXX")>>, <<"gwnb", PyStr("0")>>,
             <<"mcast", PyStr("off")>>, <<"mcastdevaddr", PyStr("00000000")>>,
             <<"mcastdnctr", PyStr("0")>>, <<"mrgn", PyStr("255")>>,
             <<"pwridx", PyStr("5")>>, <<"retx", PyStr("7")>>,
             <<"rx2", PyStr("8 923300000")>>, <<"rxdelay1", PyStr("1000")>>,
             <<"rxdelay2", PyStr("2000")>>, <<"status", PyStr("00000100")>>,
             <<"sync", PyStr("34")>>, <<"upctr", PyStr("0")>>>>,
   radio |-> <<<<"afcbw", PyStr("41.7")>>, <<"bitrate", PyStr("50000")>>,
               <<"bt", PyStr("0.5")>>, <<"bw", PyStr("125")>>,
               <<"cr", PyStr("4/5")>>, <<"crc", PyStr("on")>>,
               <<"fdev", PyStr("25000")>>, <<"freq", PyStr("923300000")>>,
               <<"iqi", PyStr("off")>>, <<"mod", PyStr("lora")>>,
               <<"prlen", PyStr("8")>>, <<"pwr", PyStr("2")>>,
               <<"rxbw", PyStr("25")>>, <<"sf", PyStr("sf12")>>,
               <<"sync", PyStr("34")>>, <<"wdt", PyStr("15000")>>>>]

(***************************************************************************)
(* The device behind the transport.  A device that works answers each      *)
(* command with one line ended by "\r\n": the version line, the settings   *)
(* the module documents as defaults, 'ok' for a command that sets, saves   *)
(* or resumes.  A device is given as the faults it shows: a function from  *)
(* some commands to the way the transport fails while that command is      *)
(* sent.                                                                   *)
(***************************************************************************)

version_line == "RN2903 1.0.5 Nov 06 2018 10:45:27"

\* The line a working device answers cmd with.
setting_line(cmd, fields) ==
  IF cmd = "sys get ver" THEN version_line
  ELSE IF cmd = "sys get hweui" THEN "0004A30B001A2B3C"
  ELSE IF cmd = "sys get vdd" THEN "3300"
  ELSE IF startswith(cmd, "sys get nvm") THEN "FF"
  ELSE IF cmd \in {"sys reset", "sys factoryRESET"} THEN version_line
  ELSE IF cmd = "mac pause" THEN "4294967245"
  ELSE IF Len(fields) = 3 /\ fields[2] = "get" /\ fields[1] \in {"mac", "radio"}
          /\ fields[3] \in keys(default_device_config[fields[1]])
       THEN value_of(default_device_config[fields[1]], fields[3]).str
  ELSE "ok"

device_line(cmd) == setting_line(cmd, split(cmd))

working(cmd) ==
  [write |-> TRUE, rx |-> device_line(cmd) \o "\r\n", after |-> "raise"]

\* The ways the transport fails during one command.
faults ==
  [busy |-> [write |-> TRUE, rx |-> "busy\r\n", after |-> "raise"],
   invalid_param |-> [write |-> TRUE, rx |-> "invalid_param\r\n", after |-> "raise"],
   err |-> [write |-> TRUE, rx |-> "err\r\n", after |-> "raise"],
   write_raises |-> [write |-> FALSE, rx |-> "", after |-> "raise"],
   read_raises |-> [write |-> TRUE, rx |-> "", after |-> "raise"],
   read_times_out |-> [write |-> TRUE, rx |-> "", after |-> "timeout"]]

\* Lines a device may answer with that are not the line of a working
\* device: a line ended by a line feed alone, a version line with another
\* name or another number of fields, max_ch bytes without a line feed, a
\* line feed that comes after more than max_ch bytes.
line_faults ==
  [radio_err |-> [write |-> TRUE, rx |-> "radio_err\r\n", after |-> "raise"],
   ok_lf |-> [write |-> TRUE, rx |-> "ok\n", after |-> "raise"],
   version_lf |-> [write |-> TRUE, rx |-> version_line \o "\n", after |-> "raise"],
   wrong_name |-> [write |-> TRUE, rx |-> "RN2483 1.0.5 Nov 06 2018 10:45:27\r\n",
                   after |-> "raise"],
   old_version |-> [write |-> TRUE, rx |-> "RN2903 1.0.3 Mar 30 2017 12:00:00\r\n",
                    after |-> "raise"],
   five_fields |-> [write |-> TRUE, rx |-> "RN2903 1.0.5 Nov 06 2018\r\n",
                    after |-> "raise"],
   seven_fields |-> [write |-> TRUE, rx |-> version_line \o " UTC\r\n",
                     after |-> "raise"],
   no_feed |-> [write |-> TRUE, rx |-> repeat("A", max_ch), after |-> "raise"],
   late_feed |-> [write |-> TRUE, rx |-> repeat("A", max_ch + 44) \o "\r\n",
                  after |-> "raise"]]

\* The way of failing a device's fault names: one of faults, one of
\* line_faults, or the line of that name: a response code, or the value the
\* device holds for a setting.
fault(name) ==
  IF name \in DOMAIN faults THEN faults[name]
  ELSE IF name \in DOMAIN line_faults THEN line_faults[name]
  ELSE [write |-> TRUE, rx |-> name \o "\r\n", after |-> "raise"]

\* What the transport does while cmd is sent to device.
transport(device, cmd) ==
  IF cmd \in DOMAIN device THEN fault(device[cmd]) ELSE working(cmd)

\* The device keeps a radio setting it accepts: after a 'radio set <key>
\* <value>' that was written and answered 'ok', 'radio get <key>' is
\* answered <value>.  writes are the strings written during a call; a
\* device is the commands it does not answer as a working device does, so
\* a value that is the working device's own is no entry.
radio_sets(device, writes) ==
  {cmd \in {SubSeq(writes[i], 1, Len(writes[i]) - Len(data_termintaor)) :
              i \in DOMAIN writes} :
     /\ startswith(cmd, "radio set ")
     /\ transport(device, cmd).write
     /\ transport(device, cmd).rx = "ok" \o data_termintaor}

radio_get_of(cmd) == "radio get " \o split_space(cmd)[3]

kept_settings(device, sets) ==
  LET touched == {radio_get_of(c) : c \in sets}
      value(g) == split_space(CHOOSE c \in sets : radio_get_of(c) = g)[4]
      held == (DOMAIN device \ touched)
                \cup {g \in touched : value(g) \o data_termintaor # working(g).rx}
  IN  IF held = {} THEN << >>
      ELSE [g \in held |-> IF g \in touched THEN value(g) ELSE device[g]]

stored(device, writes) ==
  IF radio_sets(device, writes) = {} THEN device
  ELSE kept_settings(device, radio_sets(device, writes))

(***************************************************************************)
(* A sequence of send_command calls, as get_device_config and              *)
(* put_device_config make them, against one device.  The calls run in      *)
(* order;                                                                  *)
(* dev_status is handed from each call to the next.  The sequence is       *)
(* evaluated half by half.                                                 *)
(***************************************************************************)

RECURSIVE send_commands(_, _, _, _)
RECURSIVE send_rest(_, _, _, _)
send_rest(done, cmds, device, safe_mode) ==
  done \o send_commands(cmds, device, done[Len(done)].dev_status, safe_mode)

send_commands(cmds, device, dev_status, safe_mode) ==
  IF Len(cmds) = 0 THEN <<>>
  ELSE IF Len(cmds) = 1
       THEN <<send_command(cmds[1], transport(device, cmds[1]), dev_status, safe_mode)>>
  ELSE send_rest(send_commands(SubSeq(cmds, 1, Len(cmds) \div 2), device,
                               dev_status, safe_mode),
                 SubSeq(cmds, Len(cmds) \div 2 + 1, Len(cmds)), device, safe_mode)

\* The strings written by a sequence of calls, in order.
RECURSIVE all_writes(_)
all_writes(results) ==
  IF Len(results) = 0 THEN <<>>
  ELSE IF Len(results) = 1 THEN results[1].writes
  ELSE all_writes(SubSeq(results, 1, Len(results) \div 2))
         \o all_writes(SubSeq(results, Len(results) \div 2 + 1, Len(results)))

\* The read() calls and the read_response calls of a sequence of calls.
RECURSIVE all_reads(_)
all_reads(results) ==
  IF Len(results) = 0 THEN 0
  ELSE IF Len(results) = 1 THEN results[1].reads
  ELSE all_reads(SubSeq(results, 1, Len(results) \div 2))
         + all_reads(SubSeq(results, Len(results) \div 2 + 1, Len(results)))

RECURSIVE all_lines(_)
all_lines(results) ==
  IF Len(results) = 0 THEN 0
  ELSE IF Len(results) = 1 THEN results[1].lines
  ELSE all_lines(SubSeq(results, 1, Len(results) \div 2))
         + all_lines(SubSeq(results, Len(results) \div 2 + 1, Len(results)))

(***************************************************************************)
(* get_device_config                                                       *)
(***************************************************************************)

config_cmds ==
  <<"sys get ver", "sys get nvm", "sys get hweui",
    "mac get adr", "mac get appeui", "mac get ar", "mac get class",
    "mac get dcycleps", "mac get devaddr", "mac get deveui", "mac get dnctr",
    "mac get dr", "mac get gwnb", "mac get mcast", "mac get mcastdevaddr",
    "mac get mcastdnctr", "mac get mrgn", "mac get pwridx", "mac get retx",
    "mac get rx2", "mac get rxdelay1", "mac get rxdelay2", "mac get status",
    "mac get sync", "mac get upctr",
    "radio get afcbw", "radio get bitrate", "radio get bt", "radio get bw",
    "radio get cr", "radio get crc", "radio get fdev", "radio get freq",
    "radio get iqi", "radio get mod", "radio get prlen", "radio get pwr",
    "radio get rxbw", "radio get sf", "radio get sync", "radio get wdt">>

nvm_bytes == 256

hex_uppercase == "0123456789ABCDEF"

\* format(adr, 'x').upper(), for adr below 256.
format_x_upper(adr) ==
  IF adr < 16 THEN Char(hex_uppercase, adr + 1)
  ELSE Char(hex_uppercase, adr \div 16 + 1) \o Char(hex_uppercase, (adr % 16) + 1)

\* The command of the memory loop for address adr.
nvm_cmd(adr) ==
  LET nvm_adr == format_x_upper(adr)
  IN  "sys get nvm" \o " "
        \o (IF Len(nvm_adr) < 2 THEN "30" \o nvm_adr ELSE "3" \o nvm_adr)

\* The commands of the memory loop, adr = 0 .. nvm_bytes - 1.
nvm_cmds == [i \in 1..nvm_bytes |-> nvm_cmd(i - 1)]

\* The send_command calls one entry of config_cmds makes.
RECURSIVE config_calls(_)
config_calls(cmds) ==
  IF Len(cmds) = 0 THEN <<>>
  ELSE (IF cmds[1] = "sys get nvm" THEN nvm_cmds
        ELSE IF cmds[1] = "mac get ch" THEN <<>>
        ELSE <<cmds[1]>>) \o config_calls(Tail(cmds))

\* Every send_command call of get_device_config, in order.
get_device_config_calls == <<"mac pause">> \o config_calls(config_cmds) \o <<"mac resume">>

\* nvm_data: the responses of the reads whose status is 'ok', in order.
RECURSIVE nvm_data(_)
nvm_data(results) ==
  IF Len(results) = 0 THEN ""
  ELSE IF Len(results) = 1
       THEN (IF results[1].status = PyStr("ok") THEN results[1].response.str ELSE "")
  ELSE nvm_data(SubSeq(results, 1, Len(results) \div 2))
         \o nvm_data(SubSeq(results, Len(results) \div 2 + 1, Len(results)))

\* A nvm read whose status is 'ok' and whose response is False: nvm_data +=
\* response raises TypeError.
nvm_type_error(results) ==
  \E i \in 1..Len(results) :
    results[i].status = PyStr("ok") /\ ~IsStr(results[i].response)

\* The position, among the calls of get_device_config, of the call made for
\* entry k of config_cmds (for 'sys get nvm', of its first call).
call_index(k) ==
  2 + Cardinality({j \in 1..(k - 1) :
                     config_cmds[j] \notin {"sys get nvm", "mac get ch"}})
    + nvm_bytes * Cardinality({j \in 1..(k - 1) : config_cmds[j] = "sys get nvm"})

\* One group of the config: a dict kept as the list of its (key, value)
\* pairs in insertion order.  The entries k.. of config_cmds whose type is
\* ctype: 'nvm' is always set, another key only when its call returned 'ok'.
RECURSIVE config_group(_, _, _, _)
config_group(ctype, k, results, nvm) ==
  IF k > Len(config_cmds) THEN <<>>
  ELSE LET fields == split_space(config_cmds[k])
           at == call_index(k)
       IN  (IF fields[1] # ctype THEN <<>>
            ELSE IF config_cmds[k] = "sys get nvm" THEN <<<<"nvm", PyStr(nvm)>>>>
            ELSE IF results[at].status # PyStr("ok") THEN <<>>
            ELSE <<<<fields[3], results[at].response>>>>)
             \o config_group(ctype, k + 1, results, nvm)

\* A config without an entry.
empty_config == [sys |-> <<>>, mac |-> <<>>, radio |-> <<>>]

\* The result of one call of get_device_config or put_device_config: raised
\* says that it ended in an exception, value is what put_device_config
\* returned and config what get_device_config returned, calls the commands
\* handed to send_command in order, results what send_command did for each.
finished(value, config, calls, results, dev_status) ==
  [raised |-> FALSE, value |-> value, config |-> config, calls |-> calls,
   results |-> results, dev_status |-> dev_status]

\* The call ended in an exception after calls.
failed(calls, results, dev_status) ==
  [raised |-> TRUE, value |-> FALSE, config |-> empty_config, calls |-> calls,
   results |-> results, dev_status |-> dev_status]

\* The position of the first memory read among the calls.
first_nvm == call_index(2)

\* What the memory reads did, among all the calls.
nvm_results(all) == SubSeq(all, first_nvm, first_nvm + nvm_bytes - 1)

\* The memory reads at which nvm_data += response raises.
nvm_errors(all) ==
  {i \in 1..nvm_bytes : nvm_type_error(<<all[first_nvm - 1 + i]>>)}

\* The number of calls made: all of them, or those up to the first memory
\* read that raises.
calls_made(all, errors) ==
  IF errors = {} THEN Len(all)
  ELSE first_nvm - 1 + (CHOOSE i \in errors : \A j \in errors : i <= j)

\* The dict built from the calls and the memory read.
pulled_config(results, nvm) ==
  [sys |-> config_group("sys", 1, results, nvm),
   mac |-> config_group("mac", 1, results, nvm),
   radio |-> config_group("radio", 1, results, nvm)]

pulled(results, errors, nvm) ==
  IF errors # {}
  THEN failed(SubSeq(get_device_config_calls, 1, Len(results)), results,
              results[Len(results)].dev_status)
  ELSE finished(FALSE, pulled_config(results, nvm), get_device_config_calls,
                results, results[Len(results)].dev_status)

pull(all, errors) ==
  pulled(SubSeq(all, 1, calls_made(all, errors)), errors, nvm_data(nvm_results(all)))

\* all: what the calls of get_device_config_calls do, were all of them made.
pull_all(all) == pull(all, nvm_errors(all))

\* get_device_config.  A memory read that returns ('ok', False) makes
\* nvm_data += response raise TypeError: the calls end with that read.
get_device_config(device, dev_status, safe_mode) ==
  pull_all(send_commands(get_device_config_calls, device, dev_status, safe_mode))

(***************************************************************************)
(* put_device_config                                                       *)
(***************************************************************************)
\* radio_set_cmds as it would be were the values taken from the defaults of
\* the class and not from the configuration of the object.
radio_set_cmds_stale(radio) ==
  [i \in 1..Len(radio) |->
     "radio set " \o radio[i][1] \o " "
       \o (IF radio[i][1] \in keys(default_device_config.radio)
           THEN value_of(default_device_config.radio, radio[i][1]).str
           ELSE radio[i][2].str)]

\* 'radio set '+setting+' '+val for each entry of the radio group, in the
\* order of the dict.
radio_set_cmds(radio) ==
  [i \in 1..Len(radio) |-> "radio set " \o radio[i][1] \o " " \o radio[i][2].str]

\* The status of the last call of results.
last_status(results) == results[Len(results)].status

\* The return after 'mac resume'.
resumed(results, calls) ==
  finished(last_status(results) = PyStr("ok"), empty_config, calls, results,
           results[Len(results)].dev_status)

\* 'mac resume', after the calls done.
push_resume(done, calls, device, safe_mode) ==
  resumed(send_rest(done, <<"mac resume">>, device, safe_mode),
          calls \o <<"mac resume">>)
\* push_save as it would be were 'mac save' sent whatever set_config is.
push_save_always(done, set_config, calls, device, safe_mode) ==
  push_resume(send_rest(done, <<"mac save">>, device, safe_mode),
              calls \o <<"mac save">>, device, safe_mode)

\* push_save as it would be were the method left at the first setting that
\* fails, without 'mac resume'.
push_save_unresumed(done, set_config, calls, device, safe_mode) ==
  IF set_config
  THEN push_resume(send_rest(done, <<"mac save">>, device, safe_mode),
                   calls \o <<"mac save">>, device, safe_mode)
  ELSE finished(FALSE, empty_config, calls, done, done[Len(done)].dev_status)

\* 'mac save' when every setting was set, then 'mac resume'.
push_save(done, set_config, calls, device, safe_mode) ==
  IF set_config
  THEN push_resume(send_rest(done, <<"mac save">>, device, safe_mode),
                   calls \o <<"mac save">>, device, safe_mode)
  ELSE push_resume(done, calls, device, safe_mode)
\* sets_made as it would be without the break.
sets_made_all(sets) == Len(sets)

\* The number of 'radio set' calls made: up to the first whose status is not
\* 'ok'.
sets_made(sets) ==
  LET not_ok == {i \in 1..Len(sets) : sets[i].status # PyStr("ok")}
  IN  IF not_ok = {} THEN Len(sets)
      ELSE CHOOSE i \in not_ok : \A j \in not_ok : i <= j

\* set_config: no 'radio set' call made has a status other than 'ok'.
sets_ok(sets) == \A i \in 1..Len(sets) : sets[i].status = PyStr("ok")

\* sets: what the 'radio set' calls do, were all of them made.
push_sets(pause, sets, cmds, device, safe_mode) ==
  push_save(pause \o SubSeq(sets, 1, sets_made(sets)), sets_ok(sets),
            <<"mac pause">> \o SubSeq(cmds, 1, sets_made(sets)), device, safe_mode)
\* push_paused as it would be without the test of the status of 'mac pause'.
push_paused_ignoring(pause, cmds, device, safe_mode) ==
  push_sets(pause, send_commands(cmds, device, pause[1].dev_status, safe_mode),
            cmds, device, safe_mode)

\* After 'mac pause'.
push_paused(pause, cmds, device, safe_mode) ==
  IF last_status(pause) # PyStr("ok")
  THEN finished(FALSE, empty_config, <<"mac pause">>, pause, pause[1].dev_status)
  ELSE push_sets(pause, send_commands(cmds, device, pause[1].dev_status, safe_mode),
                 cmds, device, safe_mode)

\* put_device_config on a valid configuration.
push_config(cmds, device, dev_status, safe_mode) ==
  push_paused(send_commands(<<"mac pause">>, device, dev_status, safe_mode),
              cmds, device, safe_mode)

\* The settings of the radio group that validate.
config_valid(cmds) == \A i \in 1..Len(cmds) : truthy(validate_command(cmds[i]))
\* push_settings as it would be without the test of config_valid.
push_settings_unchecked(cmds, device, dev_status, safe_mode) ==
  push_config(cmds, device, dev_status, safe_mode)

\* The method once the values are known to be strings.
push_settings(cmds, device, dev_status, safe_mode) ==
  IF config_valid(cmds)
  THEN push_config(cmds, device, dev_status, safe_mode)
  ELSE finished(TRUE, empty_config, <<>>, <<>>, dev_status)

\* put_device_config.  device_config['radio'] raises KeyError when the group
\* is missing, and the concatenation TypeError when a value is not a string;
\* an invalid setting makes the method return True without a command sent.
put_device_config(device_config, device, dev_status, safe_mode) ==
  IF ~has_key(device_config, "radio") THEN failed(<<>>, <<>>, dev_status)
  ELSE IF \E i \in 1..Len(device_config.radio) : ~IsStr(device_config.radio[i][2])
       THEN failed(<<>>, <<>>, dev_status)
  ELSE push_settings(radio_set_cmds(device_config.radio), device, dev_status,
                     safe_mode)

(***************************************************************************)
(* __init__                                                                *)
(***************************************************************************)

\* firmware_check as it would be were the version not compared.
firmware_check_name_only(r) ==
  IF r.status = PyStr("ok") /\ six_fields(r.response)
  THEN IF split_space(r.response.str)[1] # firmware_name THEN "error" ELSE r.after
  ELSE "error"

\* The firmware check on the call r of send_command('sys get ver'): the
\* status stays as send_command left it when r is 'ok' with six fields that
\* start with the firmware name and the target version; in every other case
\* (status not 'ok', a response that does not unpack, another module or
\* version) it is 'error'.
firmware_check(r) ==
  IF r.status = PyStr("ok") /\ six_fields(r.response)
  THEN LET fields == split_space(r.response.str)
       IN  IF fields[1] # firmware_name \/ fields[2] # target_version
           THEN "error"
           ELSE r.after
  ELSE "error"

\* 'not self.device_config': a dict is falsy when it has no key.  The value
\* get_device_config returns always has its three groups.
config_falsy(config) == DOMAIN config = {}

(***************************************************************************)
(* The configuration file: what read_file_config returns is False or the   *)
(* dict read.  exists says whether a dict was read, keys which of 'dev'    *)
(* and 'device_config' it holds, device_config the value of that key.      *)
(***************************************************************************)

no_file == [exists |-> FALSE, keys |-> {}, device_config |-> default_device_config]

\* The file save_file_config writes: 'dev' and 'device_config'.
saved_file(config) ==
  [exists |-> TRUE, keys |-> {"dev", "device_config"}, device_config |-> config]

\* 'if config:'
file_truthy(f) == f.exists /\ f.keys # {}

(***************************************************************************)
(* The session.  pc is where the caller stands: the steps of __init__      *)
(* ("open", "firmware", "pull", "config"), between two calls ("ready"),    *)
(* back from a call with its outcome in call ("returned"), or out of       *)
(* __init__ by an exception ("raised").  device and file are the world     *)
(* around the object: the device behind the serial port and the            *)
(* configuration file.  call is the last call made on the object and what  *)
(* it did.                                                                 *)
(***************************************************************************)

VARIABLES pc, dev_status, safe_mode, device_config, device, file, call

vars == <<pc, dev_status, safe_mode, device_config, device, file, call>>

no_call ==
  [op |-> "", cmd |-> "", raised |-> FALSE, status |-> PyFalse,
   response |-> PyFalse, value |-> FALSE, send_str |-> PyFalse, again |-> FALSE,
   config |-> empty_config, calls |-> <<>>, writes |-> <<>>, reads |-> 0,
   lines |-> 0, before |-> "", after |-> "", safe |-> ""]

\* call, for a send_command(cmd) that did r.
sent(cmd, r, before, safe) ==
  [no_call EXCEPT !.op = "send_command", !.cmd = cmd, !.raised = r.raised,
                  !.status = r.status, !.response = r.response,
                  !.writes = r.writes, !.reads = r.reads, !.lines = r.lines,
                  !.before = before, !.after = r.dev_status, !.safe = safe]

\* call, for a get_device_config or put_device_config that did r.
ran(op, r, before, safe) ==
  [no_call EXCEPT !.op = op, !.raised = r.raised, !.value = r.value,
                  !.config = r.config, !.calls = r.calls,
                  !.writes = all_writes(r.results),
                  !.reads = all_reads(r.results), !.lines = all_lines(r.results),
                  !.before = before, !.after = r.dev_status, !.safe = safe]

\* call, for a validate_command(cmd) that gave v.
validated(cmd, v, again, status) ==
  [no_call EXCEPT !.op = "validate_command", !.cmd = cmd,
                  !.raised = (v = IndexError),
                  !.send_str = IF v = IndexError THEN PyFalse ELSE v,
                  !.again = again, !.before = status, !.after = status]

\* The commands at which a device may fail, and how many of them one device
\* fails at.
FaultCommands == {"sys get ver", "mac pause", "sys get nvm 3A0"}

MaxFaults == 1

Devices ==
  UNION {[S -> DOMAIN faults] :
           S \in {T \in SUBSET FaultCommands : Cardinality(T) <= MaxFaults}}

\* A configuration the file may hold whose radio power is out of range.
edited_config ==
  [default_device_config EXCEPT
     !.radio = [i \in 1..Len(@) |->
                  IF @[i][1] = "pwr" THEN <<"pwr", PyStr("30")>> ELSE @[i]]]

Files == {no_file, saved_file(default_device_config), saved_file(edited_config)}

\* The commands callers send.
Commands ==
  {"sys get ver", "mac pause", "sys get nvm 3A0", "sys reset", "sys eraseFW",
   "sys factoryRESET", "SYS eraseFW", "sys sleep 100", "sys sleep 50",
   "radio rx 0", "radio tx 48", "radio set pwr 30", "radio set sf SF7",
   "mac get ch freq 72", "bogus get ver", "sys", "sys ", ""}

Init ==
  /\ pc = "open"
  /\ dev_status = "None"
  /\ safe_mode = "on"
  /\ device_config = default_device_config
  /\ device \in Devices
  /\ file \in Files
  /\ call = no_call

\* serial.Serial(...) succeeds or raises.
OpenSerial ==
  /\ pc = "open"
  /\ \E opened \in BOOLEAN :
       dev_status' = IF opened THEN "idle" ELSE "error"
  /\ pc' = "firmware"
  /\ UNCHANGED <<safe_mode, device_config, device, file, call>>

\* The firmware check, made when the port opened.
CheckFirmware ==
  /\ pc = "firmware"
  /\ IF dev_status = "idle"
     THEN /\ call' = sent("sys get ver",
                          send_command("sys get ver", transport(device, "sys get ver"),
                                       dev_status, safe_mode),
                          dev_status, safe_mode)
          /\ dev_status' = firmware_check(call')
     ELSE UNCHANGED <<dev_status, call>>
  /\ pc' = "pull"
  /\ UNCHANGED <<safe_mode, device_config, device, file>>

\* The pull of the device's configuration, made when the firmware matched.
\* An exception of get_device_config leaves __init__.
PullConfig ==
  /\ pc = "pull"
  /\ IF dev_status = "idle"
     THEN /\ call' = ran("get_device_config",
                         get_device_config(device, dev_status, safe_mode),
                         dev_status, safe_mode)
          /\ IF call'.raised
             THEN /\ pc' = "raised"
                  /\ dev_status' = call'.after
                  /\ UNCHANGED device_config
             ELSE /\ pc' = "config"
                  /\ device_config' = call'.config
                  /\ dev_status' = IF config_falsy(call'.config) THEN "error"
                                   ELSE call'.after
     ELSE /\ pc' = "config"
          /\ UNCHANGED <<dev_status, device_config, call>>
  /\ UNCHANGED <<safe_mode, device, file>>

\* The file's configuration replaces the object's and is pushed, whatever
\* dev_status is; without a file the object's configuration is saved.
FileConfig ==
  /\ pc = "config"
  /\ IF file_truthy(file)
     THEN IF "device_config" \in file.keys
          THEN /\ device_config' = file.device_config
               /\ call' = ran("put_device_config",
                              put_device_config(file.device_config, device,
                                                dev_status, safe_mode),
                              dev_status, safe_mode)
               /\ dev_status' = call'.after
               /\ device' = stored(device, call'.writes)
               /\ pc' = IF call'.raised THEN "raised" ELSE "returned"
               /\ UNCHANGED file
          ELSE /\ pc' = "returned"
               /\ UNCHANGED <<dev_status, device_config, device, file, call>>
     ELSE /\ file' = saved_file(device_config)
          /\ pc' = "returned"
          /\ UNCHANGED <<dev_status, device_config, device, call>>
  /\ UNCHANGED safe_mode

\* The caller has the outcome of the call and goes on.
Return ==
  /\ pc = "returned"
  /\ pc' = "ready"
  /\ call' = no_call
  /\ UNCHANGED <<dev_status, safe_mode, device_config, device, file>>

SendCommand(ps_cmd) ==
  /\ pc = "ready"
  /\ call' = sent(ps_cmd,
                  send_command(ps_cmd, transport(device, ps_cmd), dev_status,
                               safe_mode),
                  dev_status, safe_mode)
  /\ dev_status' = call'.after
  /\ device' = stored(device, call'.writes)
  /\ pc' = "returned"
  /\ UNCHANGED <<safe_mode, device_config, file>>

\* get_device_config called from outside: its result goes to the caller.
GetDeviceConfig ==
  /\ pc = "ready"
  /\ call' = ran("get_device_config",
                 get_device_config(device, dev_status, safe_mode),
                 dev_status, safe_mode)
  /\ dev_status' = call'.after
  /\ pc' = "returned"
  /\ UNCHANGED <<safe_mode, device_config, device, file>>

PutDeviceConfig ==
  /\ pc = "ready"
  /\ call' = ran("put_device_config",
                 put_device_config(device_config, device, dev_status, safe_mode),
                 dev_status, safe_mode)
  /\ dev_status' = call'.after
  /\ device' = stored(device, call'.writes)
  /\ pc' = "returned"
  /\ UNCHANGED <<safe_mode, device_config, file>>

\* The caller overrides safe_mode.
SetSafeMode(mode) ==
  /\ pc = "ready"
  /\ safe_mode # mode
  /\ safe_mode' = mode
  /\ UNCHANGED <<pc, dev_status, device_config, device, file, call>>

Next ==
  \/ OpenSerial
  \/ CheckFirmware
  \/ PullConfig
  \/ FileConfig
  \/ Return
  \/ \E ps_cmd \in Commands : SendCommand(ps_cmd)
  \/ GetDeviceConfig
  \/ PutDeviceConfig
  \/ \E mode \in {"on", "off"} : SetSafeMode(mode)

Spec == Init /\ [][Next]_vars

(***************************************************************************)
(* validate_command on its own: the caller hands it a string and may hand  *)
(* it its own result again.  The strings are made from the command tree:   *)
(* for every parameter specification of the tree, the command up to that   *)
(* parameter, tokens at and around the ends of its range, and the          *)
(* parameters that follow.                                                 *)
(***************************************************************************)

\* s.upper() on ASCII, half by half.
RECURSIVE upper(_)
upper(s) ==
  IF Len(s) = 0 THEN ""
  ELSE IF Len(s) = 1
       THEN (IF contains(ascii_lowercase, s)
             THEN Char(ascii_uppercase, index(ascii_lowercase, s))
             ELSE s)
  ELSE upper(SubSeq(s, 1, Len(s) \div 2))
         \o upper(SubSeq(s, Len(s) \div 2 + 1, Len(s)))

\* The decimal string of n + 1, for the decimal string s of n >= 0.
inc(s) ==
  LET not9 == {i \in 1..Len(s) : Char(s, i) # "9"}
      k == CHOOSE i \in not9 : \A j \in not9 : j <= i
  IN  IF not9 = {} THEN "1" \o repeat("0", Len(s))
      ELSE SubSeq(s, 1, k - 1)
             \o Char(decimal_digits, index(decimal_digits, Char(s, k)) + 1)
             \o repeat("0", Len(s) - k)

\* The decimal string of n - 1, for the decimal string s of n >= 0.
dec(s) ==
  LET not0 == {i \in 1..Len(s) : Char(s, i) # "0"}
      k == CHOOSE i \in not0 : \A j \in not0 : j <= i
  IN  IF not0 = {} THEN "-1"
      ELSE strip_zeros(SubSeq(s, 1, k - 1)
                         \o Char(decimal_digits, index(decimal_digits, Char(s, k)) - 1)
                         \o repeat("9", Len(s) - k))

\* A token a parameter specification accepts: the first of its range.
sample(spec) == spec.range[1]

\* The parameters of a node that declares user input, reached by prefix:
\* each with the command up to it and the parameters after it.
param_sites(prefix, user_input) ==
  {[prefix |-> IF k = 1 THEN prefix ELSE prefix \o " " \o sample(user_input[1]),
    spec |-> user_input[k],
    rest |-> IF k = 1 /\ Len(user_input) = 2
             THEN " " \o sample(user_input[2]) ELSE ""] :
     k \in 1..Len(user_input)}

\* The parameters below a node without user input: those of its subcommands
\* and of their subcommands.
sub_sites(prefix, node) ==
  UNION {IF has_key(node[sub], "user_input")
         THEN param_sites(prefix \o " " \o sub, node[sub].user_input)
         ELSE UNION {IF has_key(node[sub][sub2], "user_input")
                     THEN param_sites(prefix \o " " \o sub \o " " \o sub2,
                                      node[sub][sub2].user_input)
                     ELSE {} : sub2 \in DOMAIN node[sub]} :
           sub \in DOMAIN node}

\* Every parameter specification of the command tree.
Sites ==
  UNION {UNION {IF has_key(commands[t][b], "user_input")
                THEN param_sites(t \o " " \o b, commands[t][b].user_input)
                ELSE sub_sites(t \o " " \o b, commands[t][b]) :
                  b \in DOMAIN commands[t]} :
           t \in DOMAIN commands}

IntSites == {s \in Sites : s.spec.type = "int"}

HexSites == {s \in Sites : s.spec.type = "hex"}

SetSites == {s \in Sites : s.spec.type = "set"}

\* The command with token tok at the parameter of site s.
compose(s, tok) == s.prefix \o " " \o tok \o s.rest

\* The ends of an integer range and their neighbours outside it.
int_tokens(s) ==
  {dec(s.spec.range[1]), s.spec.range[1], s.spec.range[2], inc(s.spec.range[2])}

\* The ends of a hex range in both cases, and tokens with a character that
\* is no hex digit.
hex_tokens(s) ==
  {s.spec.range[1], s.spec.range[2], lower(s.spec.range[2]),
   "3g0", "0G", "3A-", "x3A", s.spec.range[1] \o "z"}

\* The first and the last member of a set, their other cases, and tokens
\* that are members of no set.
set_tokens(s) ==
  UNION {{m, lower(m), upper(m), m \o "0"} :
           m \in {s.spec.range[1], s.spec.range[Len(s.spec.range)]}}
    \cup {"sf13"}

\* Strings of fewer than two tokens.
ShortInputs == {"", "sys", " ", "sys ", " sys", "  ", "reset "}

\* Commands with and without tokens the tree does not know.
OtherInputs ==
  {"sys get ver", "SYS get ver", "sys GET ver", "bogus get ver", "sys bogus",
   "sys get bogus", "mac get bogus", "radio bogus 1", "radio set bogus 1",
   "mac get ch", "mac get ch bogus", "mac get ch bogus 5", "mac get ch 5",
   "mac get ch freq", "mac get ch freq 5", "mac get ch FREQ 5",
   "radio set sf sf7", "radio set sf SF7", "sys sleep 50", "sys get nvm 3FF"}

Inputs ==
  ShortInputs \cup OtherInputs
    \cup UNION {{compose(s, tok) : tok \in int_tokens(s)} : s \in IntSites}
    \cup UNION {{compose(s, tok) : tok \in hex_tokens(s)} : s \in HexSites}
    \cup UNION {{compose(s, tok) : tok \in set_tokens(s)} : s \in SetSites}

\* validate_command needs no device: the object is as its fields are first
\* set.
InitV ==
  /\ pc = "ready"
  /\ dev_status = "None"
  /\ safe_mode = "on"
  /\ device_config = default_device_config
  /\ device = << >>
  /\ file = no_file
  /\ call = no_call

ValidateCommand(ps_cmd) ==
  /\ pc = "ready"
  /\ call' = validated(ps_cmd, validate_command(ps_cmd), FALSE, dev_status)
  /\ pc' = "returned"
  /\ UNCHANGED <<dev_status, safe_mode, device_config, device, file>>

\* The caller validates the string validate_command returned.
ValidateAgain ==
  /\ pc = "returned"
  /\ call.op = "validate_command"
  /\ ~call.again
  /\ IsStr(call.send_str)
  /\ call' = validated(call.send_str.str, validate_command(call.send_str.str),
                       TRUE, dev_status)
  /\ UNCHANGED <<pc, dev_status, safe_mode, device_config, device, file>>

NextV ==
  \/ \E ps_cmd \in Inputs : ValidateCommand(ps_cmd)
  \/ ValidateAgain
  \/ Return

SpecV == InitV /\ [][NextV]_vars

(***************************************************************************)
(* send_command against a device that answers in every way a serial line   *)
(* can: the session is constructed against a device that works, and the    *)
(* device then starts to fail at one command, in one of the ways of         *)
(* faults and line_faults or with one of the response codes.               *)
(***************************************************************************)

\* The commands at which the device comes to fail: one of each branch of
\* send_command.
DisturbedCommands ==
  {"sys get ver", "mac pause", "sys sleep 100", "sys reset", "sys eraseFW",
   "sys factoryRESET", "radio rx 0", "radio tx 48"}

FaultNames == DOMAIN faults \cup DOMAIN line_faults \cup members(response_codes)

InitD ==
  /\ pc = "open"
  /\ dev_status = "None"
  /\ safe_mode = "on"
  /\ device_config = default_device_config
  /\ device = << >>
  /\ file = no_file
  /\ call = no_call

\* The device begins to answer cmd in the way name.
Disturb(cmd, name) ==
  /\ pc = "ready"
  /\ device' = (cmd :> name)
  /\ device' # device
  /\ UNCHANGED <<pc, dev_status, safe_mode, device_config, file, call>>

NextD ==
  \/ OpenSerial
  \/ CheckFirmware
  \/ PullConfig
  \/ FileConfig
  \/ Return
  \/ \E ps_cmd \in Commands : SendCommand(ps_cmd)
  \/ \E mode \in {"on", "off"} : SetSafeMode(mode)
  \/ \E cmd \in DisturbedCommands : \E name \in FaultNames : Disturb(cmd, name)

SpecD == InitD /\ [][NextD]_vars

(***************************************************************************)
(* put_device_config against a device that keeps what it is set to and     *)
(* that may come to fail at one command of the push: the caller edits the  *)
(* radio group of device_config, pushes it, and pulls the configuration    *)
(* back after a push that went through.                                    *)
(***************************************************************************)

\* The commands of a push at which the device comes to fail: the pause, the
\* first, a middle and the last setting of the default radio group, the
\* save and the resume.
PushCommands ==
  {"mac pause", "radio set afcbw 41.7", "radio set bw 125",
   "radio set wdt 15000", "mac save", "mac resume"}

\* The values the caller gives settings of the radio group: two the command
\* tree accepts and one it does not.
RadioEdits == {<<"pwr", "10">>, <<"pwr", "30">>, <<"sf", "sf7">>}

\* self.device_config['radio'][key] = value
radio_edit(config, key, value) ==
  [config EXCEPT
     !.radio = [i \in 1..Len(@) |->
                  IF @[i][1] = key THEN <<key, PyStr(value)>> ELSE @[i]]]

SetRadio(key, value) ==
  /\ pc = "ready"
  /\ has_key(device_config, "radio")
  /\ key \in keys(device_config.radio)
  /\ device_config' = radio_edit(device_config, key, value)
  /\ device_config' # device_config
  /\ UNCHANGED <<pc, dev_status, safe_mode, device, file, call>>

\* The device took cmd: the write went through and the answer was 'ok'.
accepted(cmd) ==
  /\ transport(device, cmd).write
  /\ transport(device, cmd).rx = "ok" \o data_termintaor

\* The put_device_config just made went through: every setting of
\* device_config was sent and taken by the device, the save as well, and
\* True came back.
pushed_fully ==
  /\ pc = "returned"
  /\ call.op = "put_device_config"
  /\ ~call.raised
  /\ call.value
  /\ call.before # "error"
  /\ call.calls = <<"mac pause">> \o radio_set_cmds(device_config.radio)
                     \o <<"mac save", "mac resume">>
  /\ \A i \in DOMAIN call.calls :
       call.calls[i] \notin {"mac pause", "mac resume"} => accepted(call.calls[i])

\* The caller reads the configuration back after a push that went through.
PullAfterPush ==
  /\ pushed_fully
  /\ call' = [ran("get_device_config",
                   get_device_config(device, dev_status, safe_mode),
                   dev_status, safe_mode) EXCEPT !.again = TRUE]
  /\ dev_status' = call'.after
  /\ UNCHANGED <<pc, safe_mode, device_config, device, file>>

NextP ==
  \/ OpenSerial
  \/ CheckFirmware
  \/ PullConfig
  \/ FileConfig
  \/ Return
  \/ \E edit \in RadioEdits : SetRadio(edit[1], edit[2])
  \/ \E cmd \in PushCommands : \E name \in DOMAIN faults : Disturb(cmd, name)
  \/ PutDeviceConfig
  \/ PullAfterPush

SpecP == InitD /\ [][NextP]_vars

(***************************************************************************)
(* Properties                                                              *)
(***************************************************************************)

\* A call of one of the three operations has returned or raised.
Called(op) == pc \in {"returned", "raised"} /\ call.op = op

\* C1: a send_command, get_device_config or put_device_config made while
\* dev_status is 'error' writes nothing to the transport and reads nothing
\* from it, and send_command then returns (False, False) whatever the
\* command.
ErrorStateNoTransport ==
  (call.op \in {"send_command", "get_device_config", "put_device_config"}
     /\ call.before = "error")
    => /\ call.writes = <<>>
       /\ call.reads = 0
       /\ call.lines = 0
       /\ call.op = "send_command"
            => ~call.raised /\ call.status = PyFalse /\ call.response = PyFalse

\* A valid command was sent in the 'error' state.
ErrorStateCalled ==
  /\ Called("send_command")
  /\ call.before = "error"
  /\ call.cmd = "sys get ver"

\* C2: 'error' is absorbing: no step of the session, in __init__ or in a
\* call of send_command, get_device_config or put_device_config, takes
\* dev_status from 'error' to another value, whatever the device does.
ErrorAbsorbing == [][dev_status = "error" => dev_status' = "error"]_vars

\* A reset was asked for in the 'error' state, against a device that works.
ErrorStateKept ==
  /\ Called("send_command")
  /\ call.before = "error"
  /\ call.cmd = "sys reset"
  /\ device = << >>
  /\ dev_status = "error"

\* C3: with safe_mode 'on', a send_command whose command validates to
\* 'sys eraseFW' or 'sys factoryRESET' returns (False, False) and writes
\* nothing, in every state of the session.
SafeModeBlocks ==
  (call.op = "send_command" /\ call.safe = "on"
     /\ validate_command(call.cmd)
          \in {PyStr("sys eraseFW"), PyStr("sys factoryRESET")})
    => /\ call.writes = <<>>
       /\ call.status = PyFalse
       /\ call.response = PyFalse

\* 'sys eraseFW' was sent to an idle session with safe_mode 'on'.
SafeModeBlocked ==
  /\ Called("send_command")
  /\ call.cmd = "sys eraseFW"
  /\ call.safe = "on"
  /\ call.before = "idle"

IntBoundsChecked ==
  Called("validate_command") =>
    \A s \in IntSites :
      /\ call.cmd \in {compose(s, dec(s.spec.range[1])),
                       compose(s, inc(s.spec.range[2]))}
           => ~call.raised /\ call.send_str = PyFalse
      /\ call.cmd \in {compose(s, s.spec.range[1]), compose(s, s.spec.range[2])}
           => IsStr(call.send_str)

\* A character outside [0-9a-fA-F].
non_hex(tok) == \E i \in 1..Len(tok) : ~contains("0123456789abcdefABCDEF", Char(tok, i))

\* C6: for every hex parameter of the tree, a command whose token for that
\* parameter holds a character outside [0-9a-fA-F] is rejected by
\* validate_command.
NonHexRejected ==
  Called("validate_command") =>
    \A s \in HexSites :
      \A tok \in hex_tokens(s) :
        (call.cmd = compose(s, tok) /\ non_hex(tok))
          => ~call.raised /\ call.send_str = PyFalse

\* A memory address with a character that is no hex digit was validated.
NonHexTried ==
  /\ Called("validate_command")
  /\ call.cmd = "sys get nvm 3g0"

\* C7: for every set parameter of the tree, a command whose token for that
\* parameter is not, character for character, a member of the set is
\* rejected by validate_command, and a command whose token is a member is
\* returned unchanged.
SetExact ==
  Called("validate_command") =>
    \A s \in SetSites :
      \A tok \in set_tokens(s) :
        call.cmd = compose(s, tok)
          => IF tok \in members(s.spec.range)
             THEN call.send_str = PyStr(call.cmd)
             ELSE ~call.raised /\ call.send_str = PyFalse

\* A member of a set was validated in another case.
SetCaseTried ==
  /\ Called("validate_command")
  /\ call.cmd = "radio set sf SF7"

\* C8: validate_command returns its own result unchanged: validating the
\* string it returned for an accepted command returns that string.
CanonicalIdempotent ==
  (Called("validate_command") /\ call.again)
    => call.send_str = PyStr(call.cmd)

\* C9: a string of fewer than two tokens makes validate_command return
\* False; it does not raise.
FewTokensRejected ==
  (Called("validate_command") /\ Len(split(call.cmd)) < 2)
    => ~call.raised /\ call.send_str = PyFalse

\* The tokens of a command name something the tree does not hold: a type,
\* a command of the type, a subcommand of the command, or a subcommand of
\* the subcommand.
unknown_token(ts) ==
  \/ ~has_key(commands, lower(ts[1]))
  \/ /\ has_key(commands, lower(ts[1]))
     /\ \/ ~has_key(commands[lower(ts[1])], ts[2])
        \/ /\ has_key(commands[lower(ts[1])], ts[2])
           /\ ~has_key(commands[lower(ts[1])][ts[2]], "user_input")
           /\ Len(ts) >= 3
           /\ DOMAIN commands[lower(ts[1])][ts[2]] # {}
           /\ \/ ~has_key(commands[lower(ts[1])][ts[2]], ts[3])
              \/ /\ has_key(commands[lower(ts[1])][ts[2]], ts[3])
                 /\ ~has_key(commands[lower(ts[1])][ts[2]][ts[3]], "user_input")
                 /\ Len(ts) >= 4
                 /\ DOMAIN commands[lower(ts[1])][ts[2]][ts[3]] # {}
                 /\ ~has_key(commands[lower(ts[1])][ts[2]][ts[3]], ts[4])

\* C10: a command with a token the tree does not know, at any depth, is
\* rejected by validate_command.
UnknownTokenRejected ==
  (Called("validate_command") /\ Len(split(call.cmd)) >= 2
     /\ unknown_token(split(call.cmd)))
    => ~call.raised /\ call.send_str = PyFalse

\* The tokens a site's command may hold at its parameter.
site_tokens(s) ==
  IF s.spec.type = "int" THEN int_tokens(s)
  ELSE IF s.spec.type = "hex" THEN hex_tokens(s)
  ELSE set_tokens(s)

\* C11 as stated: in the string validate_command returns, an accepted hex
\* value appears lower-cased, an accepted integer or set value as given.
HexLowered ==
  Called("validate_command") =>
    \A s \in Sites :
      \A tok \in site_tokens(s) :
        (call.cmd = compose(s, tok) /\ IsStr(call.send_str)
           /\ check_param(tok, s.spec))
          => IF s.spec.type = "hex"
             THEN lower(tok) \in members(split(call.send_str.str))
             ELSE tok \in members(split(call.send_str.str))

\* C11, amended: in the string validate_command returns, every accepted
\* parameter value appears as it was given; a command with an accepted hex
\* value is returned unchanged, its hex digits in the case they came in.
ValuesKept ==
  Called("validate_command") =>
    \A s \in Sites :
      \A tok \in site_tokens(s) :
        (call.cmd = compose(s, tok) /\ IsStr(call.send_str)
           /\ check_param(tok, s.spec))
          => IF s.spec.type = "hex"
             THEN call.send_str = PyStr(call.cmd)
             ELSE tok \in members(split(call.send_str.str))

\* A memory address in upper case was validated and accepted.
UpperHexAccepted ==
  /\ Called("validate_command")
  /\ call.cmd = "sys get nvm 3FF"
  /\ IsStr(call.send_str)

\* C12: for a command made of a type, a command, the subcommands down to a
\* parameter and an accepted value for each parameter, validate_command
\* returns every one of these tokens, in order, joined by single spaces.
AllTokensKept ==
  Called("validate_command") =>
    \A s \in Sites :
      call.cmd = compose(s, sample(s.spec)) => call.send_str = PyStr(call.cmd)

\* What the transport did during the call of send_command just made.
heard == transport(device, call.cmd)

\* send_command got past the test of dev_status and validate_command gave
\* it a string to send.
Dispatched ==
  /\ Called("send_command")
  /\ call.before # "error"
  /\ truthy(validate_command(call.cmd))

\* The string validate_command made of the command of the call.
canonical == validate_command(call.cmd).str

\* A command of none of the six kinds send_command treats on their own.
other_class(send_str) ==
  \A p \in {"sys sleep", "sys reset", "sys eraseFW", "sys factoryRESET",
             "radio rx ", "radio tx"} : ~startswith(send_str, p)

\* The response codes that report an error: all of them but 'ok'.
error_codes == members(response_codes) \ {"ok"}

\* C13: when the device answers a command of the 'all other commands' kind
\* with one of the error codes, send_command does not return status 'ok'.
DeviceErrorsReported ==
  (Dispatched /\ other_class(canonical) /\ heard.write)
    => \A c \in error_codes :
         heard.rx = c \o data_termintaor => call.status # PyStr("ok")

\* read() raises before a line feed is read and before max_ch bytes are.
read_fails(dev) ==
  /\ dev.after = "raise"
  /\ Len(dev.rx) < max_ch
  /\ ~contains(dev.rx, "\n")

\* C14: when a read of the transport fails while send_command reads the
\* response to a command it wrote, send_command does not return status
\* 'ok'.
ReadFailureReported ==
  (Dispatched /\ heard.write /\ call.lines > 0 /\ read_fails(heard))
    => call.status # PyStr("ok")

\* C15: when the write of a command fails, send_command returns a status
\* other than 'ok', reads nothing and leaves dev_status as it was.
WriteFailureReported ==
  (Called("send_command") /\ call.writes # <<>> /\ ~heard.write)
    => /\ call.status # PyStr("ok")
       /\ call.reads = 0
       /\ call.lines = 0
       /\ call.after = call.before

\* The write of 'sys reset' failed.
ResetWriteFailed ==
  /\ Called("send_command")
  /\ call.cmd = "sys reset"
  /\ device = ("sys reset" :> "write_raises")
  /\ call.writes = <<"sys reset\r\n">>

\* C16: a valid 'radio rx <n>' or 'radio tx <hex>' sent in a session that is
\* not in 'error' is written to the transport once, and at most the
\* acknowledgement is read.
RadioWrittenOnce ==
  (Dispatched /\ \/ startswith(canonical, "radio rx ")
                 \/ startswith(canonical, "radio tx "))
    => /\ call.writes = <<canonical \o data_termintaor>>
       /\ call.lines <= 1

\* C17: with safe_mode 'off', 'sys eraseFW' makes one write and no read, and
\* returns status 'ok' exactly when the write succeeded.
EraseWritesOnly ==
  (Dispatched /\ canonical = "sys eraseFW" /\ call.safe = "off")
    => /\ call.writes = <<"sys eraseFW" \o data_termintaor>>
       /\ call.reads = 0
       /\ call.lines = 0
       /\ call.status = PyStr("ok") <=> heard.write

\* 'sys eraseFW' was sent with safe_mode 'off' and its write failed.
EraseWriteFailed ==
  /\ Called("send_command")
  /\ call.cmd = "sys eraseFW"
  /\ call.safe = "off"
  /\ call.before = "idle"
  /\ device = ("sys eraseFW" :> "write_raises")
  /\ call.status # PyStr("ok")

\* The bytes the reads of one response deliver: up to the first line feed,
\* and max_ch at most.
received(dev) ==
  LET n == IF Len(dev.rx) < max_ch THEN Len(dev.rx) ELSE max_ch
      feeds == {i \in 1..n : Char(dev.rx, i) = "\n"}
  IN  IF feeds = {} THEN SubSeq(dev.rx, 1, n)
      ELSE SubSeq(dev.rx, 1, CHOOSE i \in feeds : \A j \in feeds : i <= j)

\* The number of spaces of a string.
spaces(s) == Cardinality({i \in 1..Len(s) : Char(s, i) = " "})

\* A line of six fields separated by single spaces, the first of them the
\* name of the firmware.
is_banner(s) == spaces(s) = 5 /\ startswith(s, firmware_name \o " ")

\* C18: 'sys reset', and 'sys factoryRESET' with safe_mode 'off', once
\* written, return status 'ok' with the line received exactly when nothing
\* failed in the read and the line has six fields separated by spaces, the
\* first of them the firmware's name; every other response gives a status
\* other than 'ok'.
BannerChecked ==
  (Dispatched /\ heard.write
     /\ \/ canonical = "sys reset"
        \/ canonical = "sys factoryRESET" /\ call.safe = "off")
    => IF ~read_fails(heard) /\ is_banner(received(heard))
       THEN /\ call.status = PyStr("ok")
            /\ IsStr(call.response)
            /\ startswith(received(heard), call.response.str)
            /\ Len(received(heard)) - Len(call.response.str) <= Len(data_termintaor)
       ELSE call.status # PyStr("ok")

\* 'sys factoryRESET' was sent with safe_mode 'off' and the version line
\* came back under another name.
OtherNameRefused ==
  /\ Called("send_command")
  /\ call.cmd = "sys factoryRESET"
  /\ call.safe = "off"
  /\ device = ("sys factoryRESET" :> "wrong_name")
  /\ call.lines = 1
  /\ call.status = PyFalse

\* C19: one read_response makes at most max_ch reads of a byte; it stops at
\* the first line feed, and when max_ch bytes came without a line feed it
\* stops there and what it returns is the bytes read, not a failure.
ReadBounded ==
  (Dispatched /\ call.lines = 1)
    => /\ call.reads <= max_ch
       /\ contains(received(heard), "\n") => call.reads = Len(received(heard))
       /\ (Len(received(heard)) = max_ch /\ ~contains(received(heard), "\n"))
            => /\ call.reads = max_ch
               /\ other_class(canonical)
                    => call.response = PyStr(received(heard))

\* A line feed came after more than max_ch bytes.
ReadCapped ==
  /\ Called("send_command")
  /\ call.cmd = "mac pause"
  /\ device = ("mac pause" :> "late_feed")
  /\ call.reads = max_ch
  /\ call.status = PyStr("ok")

\* The line before a line feed that no carriage return precedes.
bare_line(rx) == SubSeq(rx, 1, Len(rx) - 1)

\* rx is one line ended by a line feed alone.
bare_feed(rx) ==
  /\ Len(rx) >= 1
  /\ Len(rx) <= max_ch
  /\ Char(rx, Len(rx)) = "\n"
  /\ ~contains(bare_line(rx), "\n")
  /\ ~contains(bare_line(rx), "\r")

\* What send_command returns for the command of the call when the line the
\* device answered with ends in a carriage return and a line feed.
with_carriage_return ==
  send_command(call.cmd,
               [heard EXCEPT !.rx = bare_line(heard.rx) \o data_termintaor],
               call.before, call.safe)

\* C20: a response ended by a line feed alone gives what the same response
\* ended by a carriage return and a line feed gives.
BareLineFeed ==
  (Dispatched /\ call.lines = 1 /\ heard.write /\ bare_feed(heard.rx))
    => /\ call.status = with_carriage_return.status
       /\ call.response = with_carriage_return.response

\* What the 'mac pause' that opens the call just made came back with.
pause_status ==
  send_command("mac pause", transport(device, "mac pause"), call.before,
               call.safe).status

\* A command that reads a setting.
is_get(cmd) ==
  \/ startswith(cmd, "sys get ")
  \/ startswith(cmd, "mac get ")
  \/ startswith(cmd, "radio get ")

\* C21: when the 'mac pause' that opens get_device_config does not come
\* back 'ok', no 'sys get', 'mac get' or 'radio get' command is written to
\* the transport in that call.
PullAbortsOnPause ==
  (Called("get_device_config") /\ pause_status # PyStr("ok"))
    => \A i \in DOMAIN call.writes : ~is_get(call.writes[i])

\* The number of times cmd is among the commands of the call just made.
times_called(cmd) == Cardinality({i \in DOMAIN call.calls : call.calls[i] = cmd})

\* C22: every get_device_config hands 'mac resume' to send_command once, as
\* the last of its commands, whatever the reads before it did.
PullResumesLast ==
  Called("get_device_config")
    => /\ call.calls # <<>>
       /\ call.calls[Len(call.calls)] = "mac resume"
       /\ times_called("mac resume") = 1

\* The commands put_device_config makes of the radio group of device_config.
pushed_cmds == radio_set_cmds(device_config.radio)

\* Every setting of the radio group validates.
pushed_valid ==
  \A i \in DOMAIN pushed_cmds : truthy(validate_command(pushed_cmds[i]))

\* The status send_command gives cmd in the call just made.
step_status(cmd) ==
  send_command(cmd, transport(device, cmd), call.before, call.safe).status

\* The settings whose 'radio set' does not come back 'ok'.
failing_sets == {i \in DOMAIN pushed_cmds : step_status(pushed_cmds[i]) # PyStr("ok")}

\* A put_device_config has returned.
Pushed == Called("put_device_config") /\ ~call.raised

\* C23: when a setting of the radio group does not validate,
\* put_device_config hands no command to send_command and nothing is
\* written to or read from the transport.
InvalidNotPushed ==
  (Pushed /\ ~pushed_valid)
    => /\ call.calls = <<>>
       /\ call.writes = <<>>
       /\ call.reads = 0

\* A radio power out of range was pushed from an idle session.
InvalidPushTried ==
  /\ Pushed
  /\ call.before = "idle"
  /\ value_of(device_config.radio, "pwr") = PyStr("30")

\* C24: put_device_config returns False when a setting of the radio group
\* does not validate and when a 'radio set' it sent did not come back 'ok'.
PushFailureReported ==
  (Pushed /\ \/ ~pushed_valid
             \/ \E i \in failing_sets : pushed_cmds[i] \in members(call.calls))
    => call.value = FALSE

\* C25: when 'mac pause' does not come back 'ok', put_device_config returns
\* False and hands send_command nothing after it: no 'radio set', no
\* 'mac save', no 'mac resume'.
PushAbortsOnPause ==
  (Pushed /\ pushed_valid /\ step_status("mac pause") # PyStr("ok"))
    => /\ call.value = FALSE
       /\ call.calls = <<"mac pause">>

\* A push met a device that answers 'mac pause' with 'busy'.
PauseRefused ==
  /\ Pushed
  /\ call.before = "idle"
  /\ device = ("mac pause" :> "busy")
  /\ call.writes = <<"mac pause\r\n">>

\* The number of 'radio set' commands a push sends: all of them, or those up
\* to the first that does not come back 'ok'.
sets_expected ==
  IF failing_sets = {} THEN Len(pushed_cmds)
  ELSE CHOOSE i \in failing_sets : \A j \in failing_sets : i <= j

\* C26: after a 'mac pause' that came back 'ok', the 'radio set' commands
\* are those of the entries of the radio group, in its order, up to the
\* first that does not come back 'ok'; none follows it.
SetsInOrder ==
  (Pushed /\ pushed_valid /\ step_status("mac pause") = PyStr("ok"))
    => /\ Len(call.calls) > sets_expected
       /\ SubSeq(call.calls, 2, sets_expected + 1)
            = SubSeq(pushed_cmds, 1, sets_expected)
       /\ \A j \in DOMAIN call.calls :
            j > sets_expected + 1 => ~startswith(call.calls[j], "radio set ")

\* A push met a device that answers the fourth setting with 'busy'.
SetRefused ==
  /\ Pushed
  /\ call.before = "idle"
  /\ device = ("radio set bw 125" :> "busy")
  /\ "radio set bw 125" \in members(call.calls)
  /\ "radio set cr 4/5" \notin members(call.calls)

\* C27: 'mac save' is sent exactly when the configuration validates,
\* 'mac pause' came back 'ok' and so did every 'radio set'; it then follows
\* the last 'radio set' and is followed by 'mac resume' alone, whatever it
\* comes back with.
SaveWhenAllSet ==
  Pushed
    => /\ "mac save" \in members(call.calls)
            <=> (pushed_valid /\ step_status("mac pause") = PyStr("ok")
                   /\ failing_sets = {})
       /\ "mac save" \in members(call.calls)
            => call.calls = <<"mac pause">> \o pushed_cmds
                              \o <<"mac save", "mac resume">>

\* A push met a device that answers 'mac save' with 'busy'.
SaveRefused ==
  /\ Pushed
  /\ call.before = "idle"
  /\ device = ("mac save" :> "busy")
  /\ "mac save" \in members(call.calls)

\* C28: after a 'mac pause' that came back 'ok', put_device_config sends
\* 'mac resume' once, as its last command, also when a 'radio set' or the
\* 'mac save' did not come back 'ok'.
PushResumesLast ==
  (Pushed /\ pushed_valid /\ step_status("mac pause") = PyStr("ok"))
    => /\ call.calls[Len(call.calls)] = "mac resume"
       /\ times_called("mac resume") = 1
       /\ call.writes[Len(call.writes)] = "mac resume\r\n"

\* A push whose fourth setting could not be written ended with 'mac resume'.
ResumedAfterRefusal ==
  /\ Pushed
  /\ call.before = "idle"
  /\ device = ("radio set bw 125" :> "write_raises")
  /\ "radio set bw 125" \in members(call.calls)
  /\ "mac save" \notin members(call.calls)
  /\ call.calls[Len(call.calls)] = "mac resume"

\* C29: the configuration pulled after a push that went through holds, for
\* every key of the radio group pushed, the value pushed.
RoundTrip ==
  (Called("get_device_config") /\ call.again)
    => /\ ~call.raised
       /\ \A i \in DOMAIN device_config.radio :
            \E j \in DOMAIN call.config.radio :
              call.config.radio[j] = device_config.radio[i]

\* A radio power other than the default was pushed and pulled back.
RoundTripDone ==
  /\ Called("get_device_config")
  /\ call.again
  /\ value_of(device_config.radio, "pwr") = PyStr("10")
  /\ value_of(call.config.radio, "pwr") = PyStr("10")

\* C30: an acknowledged 'mac pause' leaves dev_status 'mac_paused', and a
\* 'sys reset' that succeeded leaves it 'idle'.
StatusTracked ==
  (Dispatched /\ call.status = PyStr("ok") /\ heard = working(canonical))
    => /\ canonical = "mac pause" => call.after = "mac_paused"
       /\ canonical = "sys reset" => call.after = "idle"

(***************************************************************************)
(* The constructor against a device whose answer to 'sys get ver' is        *)
(* disturbed from the start.                                               *)
(***************************************************************************)
ConstructionDevices ==
  {<< >>} \cup {("sys get ver" :> name) : name \in FaultNames}

InitC ==
  /\ pc = "open"
  /\ dev_status = "None"
  /\ safe_mode = "on"
  /\ device_config = default_device_config
  /\ device \in ConstructionDevices
  /\ file \in Files
  /\ call = no_call

NextC ==
  \/ OpenSerial
  \/ CheckFirmware
  \/ PullConfig
  \/ FileConfig
  \/ Return

SpecC == InitC /\ [][NextC]_vars

\* The line the device answers with begins with the firmware's name and the
\* target version.
carries_firmware(dev) ==
  /\ dev.write
  /\ LET fields == split_space(received(dev))
     IN  /\ Len(fields) >= 2
         /\ fields[1] = firmware_name
         /\ fields[2] = target_version

\* The steps of __init__ that follow the opening of the port.
constructing == pc \in {"firmware", "pull", "config"}

\* C31: in __init__, a 'sys get ver' whose answer does not begin with the
\* firmware's name and the target version leaves dev_status 'error'; and
\* once dev_status is 'error', because the port did not open or the
\* firmware did not match, it stays 'error' to the end of __init__ and
\* neither the pull nor the push that follow write to the transport.
ConstructionFailsClosed ==
  [][/\ (pc = "firmware" /\ dev_status = "idle"
           /\ ~carries_firmware(transport(device, "sys get ver")))
          => dev_status' = "error"
     /\ (constructing /\ dev_status = "error")
          => /\ dev_status' = "error"
             /\ call' # call
                  => /\ call'.op = "put_device_config"
                     /\ call'.writes = <<>>
                     /\ call'.reads = 0]_vars

\* __init__ ended after a device of another firmware version was met and
\* the configuration of the file was pushed.
FirmwareRefused ==
  /\ pc = "returned"
  /\ device = ("sys get ver" :> "old_version")
  /\ dev_status = "error"
  /\ call.op = "put_device_config"
  /\ call.before = "error"

\* The line read_response gave the call of send_command just made.
line_read == read_response(heard).value

\* A command of the 'all other commands' kind was written and a line was
\* read for it.
OtherRead ==
  /\ Dispatched
  /\ other_class(canonical)
  /\ heard.write
  /\ IsStr(line_read)

\* C32 as stated: for a command of the 'all other commands' kind that was
\* written and answered, the line 'ok' gives status 'ok' with an empty
\* response, and every line that is neither 'ok' nor one of the error codes
\* gives status 'ok' with the line as the response.
OtherOkUnlessErrorCode ==
  OtherRead
    => /\ line_read = PyStr("ok")
            => (call.status = PyStr("ok") /\ call.response = PyStr(""))
       /\ line_read.str \notin {"ok"} \cup error_codes
            => (call.status = PyStr("ok") /\ call.response = line_read)

\* C32: for a command of the 'all other commands' kind that was written and
\* answered, the line 'ok' gives status 'ok' with an empty response, and
\* every line that is neither 'ok', nor one of the error codes, nor
\* 'radio_err' gives status 'ok' with the line as the response; 'radio_err'
\* gives status False.
OtherAnswered ==
  OtherRead
    => /\ line_read = PyStr("ok")
            => (call.status = PyStr("ok") /\ call.response = PyStr(""))
       /\ line_read.str \notin {"ok", "radio_err"} \cup error_codes
            => (call.status = PyStr("ok") /\ call.response = line_read)
       /\ line_read = PyStr("radio_err")
            => (call.status = PyFalse /\ call.response = line_read)

\* 'mac pause' was answered with the line 'ok'.
OkAnswered ==
  /\ OtherRead
  /\ canonical = "mac pause"
  /\ heard.rx = "ok\r\n"
  /\ call.status = PyStr("ok")
  /\ call.response = PyStr("")

\* What send_command gives cmd in the call just made.
step(cmd) == send_command(cmd, transport(device, cmd), call.before, call.safe)

\* The entries of config_cmds that are read with one command.
single_gets ==
  {k \in DOMAIN config_cmds : config_cmds[k] \notin {"sys get nvm", "mac get ch"}}

\* C33: in get_device_config a step that fails does not end the pull: every
\* command of the list is handed to send_command, in order; the key of a
\* step that did not come back 'ok' is not set, and the key of a step that
\* came back 'ok' holds the response of that step.
PullStepsNotFatal ==
  Called("get_device_config")
    => /\ ~call.raised
       /\ call.calls = get_device_config_calls
       /\ \A k \in single_gets :
            LET fields == split_space(config_cmds[k])
            IN  IF step(config_cmds[k]).status = PyStr("ok")
                THEN <<fields[3], step(config_cmds[k]).response>>
                       \in members(call.config[fields[1]])
                ELSE fields[3] \notin keys(call.config[fields[1]])

\* A read of one byte of the memory.
is_nvm_read(cmd) == startswith(cmd, "sys get nvm ")

\* n below 4096 as three upper-case hexadecimal digits.
address_hex(n) ==
  Char(hex_uppercase, (n \div 256) + 1)
    \o Char(hex_uppercase, ((n \div 16) % 16) + 1)
    \o Char(hex_uppercase, (n % 16) + 1)

\* C34: a get_device_config made while dev_status is not 'error' reads the
\* memory with 256 commands 'sys get nvm <addr>', addr from 300 to 3FF in
\* ascending order, each of which validates; a read that fails does not end
\* the loop, and the key 'nvm' holds the responses of the reads that came
\* back 'ok', concatenated in the order of the addresses.
NvmReadThrough ==
  (Called("get_device_config") /\ call.before # "error")
    => /\ ~call.raised
       /\ SelectSeq(call.calls, is_nvm_read)
            = [i \in 1..256 |-> "sys get nvm " \o address_hex(768 + i - 1)]
       /\ \A i \in 1..256 :
            validate_command("sys get nvm " \o address_hex(768 + i - 1))
              = PyStr("sys get nvm " \o address_hex(768 + i - 1))
       /\ <<"nvm", PyStr(nvm_data([i \in 1..256 |->
                                    step("sys get nvm " \o address_hex(768 + i - 1))]))>>
            \in members(call.config.sys)

\* C35: a call of send_command writes to the transport at most once and
\* reads at most one line; what it writes is the string validate_command
\* made of the command, followed by carriage return and line feed; and it
\* reads only after a write of its own that did not fail.
OneWriteOneRead ==
  Called("send_command")
    => /\ Len(call.writes) <= 1
       /\ call.lines <= 1
       /\ call.writes # <<>>
            => /\ truthy(validate_command(call.cmd))
               /\ call.writes = <<canonical \o "\r\n">>
       /\ (call.lines > 0 \/ call.reads > 0)
            => /\ call.lines = 1
               /\ Len(call.writes) = 1
               /\ heard.write

\* The write of 'sys get ver' raised: the call wrote once and read nothing.
WroteOnceReadNothing ==
  /\ Dispatched
  /\ canonical = "sys get ver"
  /\ ~heard.write
  /\ call.writes = <<"sys get ver\r\n">>
  /\ call.reads = 0

====
